---------------------------- MODULE Spec2Model ----------------------------
(***************************************************************************)
(* Verification model of the GTFS feed cache and departure engine          *)
(* (gtfs-utils.js, kept here as src/unnamed/part_002) and of the handlers  *)
(* of src/src/index.js that drive it.                                      *)
(*                                                                         *)
(* Representation of JavaScript values                                     *)
(*   - A string is a sequence of symbols.  A symbol is a one-character     *)
(*     TLA+ string for a digit, a sign, a separator (",", ":", newline) or *)
(*     white space, and a longer TLA+ string for a run of other characters *)
(*     ("trip_id", "T1"); such a run never holds a digit-only prefix, a    *)
(*     separator or white space, so split, trim and parseInt act on the    *)
(*     sequence exactly as they act on the characters.                     *)
(*   - A number is an integer; NaN is the sentinel NaN, and every          *)
(*     arithmetic or comparison operator below treats it as IEEE does.     *)
(*   - A Date is its time value in milliseconds (NaN for Invalid Date),    *)
(*     in a time zone with a fixed offset (the Workers runtime is UTC),    *)
(*     counted from the local midnight that starts day 0 of the model.     *)
(*   - undefined is the sentinel string sequence Undefined.                *)
(***************************************************************************)
EXTENDS Integers, Sequences, FiniteSets, TLC

\* ------------------------------------------------------------ JS values

NaN == 0 - 2000000000
IsNaN(x) == x = NaN

Undefined == << "<undefined>" >>

NL == "\n"
WhiteSpace == {" ", "\r", "\t", NL}
Digits == {"0", "1", "2", "3", "4", "5", "6", "7", "8", "9"}

DigitVal(c) ==
  CASE c = "0" -> 0 [] c = "1" -> 1 [] c = "2" -> 2 [] c = "3" -> 3
    [] c = "4" -> 4 [] c = "5" -> 5 [] c = "6" -> 6 [] c = "7" -> 7
    [] c = "8" -> 8 [] c = "9" -> 9

\* String.prototype.split(sep) for a one-character separator.
Split(s, sep) ==
  LET RECURSIVE go(_, _, _)
      go(i, cur, acc) ==
        IF i > Len(s) THEN Append(acc, cur)
        ELSE IF s[i] = sep THEN go(i + 1, << >>, Append(acc, cur))
        ELSE go(i + 1, Append(cur, s[i]), acc)
  IN go(1, << >>, << >>)

\* String.prototype.trim().
TrimLeft(s) ==
  LET RECURSIVE go(_)
      go(i) == IF i > Len(s) THEN << >>
               ELSE IF s[i] \in WhiteSpace THEN go(i + 1)
               ELSE SubSeq(s, i, Len(s))
  IN go(1)

TrimRight(s) ==
  LET RECURSIVE go(_)
      go(j) == IF j < 1 THEN << >>
               ELSE IF s[j] \in WhiteSpace THEN go(j - 1)
               ELSE SubSeq(s, 1, j)
  IN go(Len(s))

Trim(s) == TrimRight(TrimLeft(s))

\* Global parseInt(string) in radix 10: leading white space is skipped, one
\* sign is accepted, the longest digit prefix is the value, and NaN is the
\* result when there is no digit.  parseInt(undefined) is NaN.
parseInt(str) ==
  LET s    == TrimLeft(str)
      neg  == Len(s) > 0 /\ s[1] = "-"
      from == IF Len(s) > 0 /\ s[1] \in {"-", "+"} THEN 2 ELSE 1
      RECURSIVE go(_, _)
      go(i, acc) == IF i > Len(s) \/ s[i] \notin Digits THEN acc
                    ELSE go(i + 1, acc * 10 + DigitVal(s[i]))
      noDigit == from > Len(s) \/ s[from] \notin Digits
  IN IF str = Undefined \/ noDigit THEN NaN
     ELSE IF neg THEN 0 - go(from, 0) ELSE go(from, 0)

\* The % operator: the result has the sign of the dividend.
JsRem(a, b) ==
  IF IsNaN(a) THEN NaN
  ELSE IF a >= 0 THEN a % b ELSE 0 - ((0 - a) % b)

\* Math.floor(a / b) for b > 0.
FloorDiv(a, b) == IF IsNaN(a) THEN NaN ELSE a \div b

\* a < b on numbers: false as soon as one side is NaN.
NumLt(a, b) == ~IsNaN(a) /\ ~IsNaN(b) /\ a < b
NumGe(a, b) == ~IsNaN(a) /\ ~IsNaN(b) /\ a >= b
NumLe(a, b) == ~IsNaN(a) /\ ~IsNaN(b) /\ a <= b
NumSub(a, b) == IF IsNaN(a) \/ IsNaN(b) THEN NaN ELSE a - b

\* ------------------------------------------------------------ CSV parsing

\* A column name, as a string of the model.
K(name) == << name >>

\* One row object: headers.forEach((header, index) => row[header] =
\* values[index] || '').  A header that occurs twice keeps its last value.
MakeRow(headers, values) ==
  LET Names == {headers[i] : i \in 1..Len(headers)}
      Last(h) == CHOOSE i \in 1..Len(headers) :
                   /\ headers[i] = h
                   /\ \A j \in 1..Len(headers) : headers[j] = h => j <= i
  IN [h \in Names |-> IF Last(h) <= Len(values) THEN values[Last(h)] ELSE << >>]

\* line.split(',').map(v => v.trim())
SplitFields(line) ==
  LET parts == Split(line, ",")
  IN [i \in 1..Len(parts) |-> Trim(parts[i])]

\* lines.filter(line => line.trim())
NonBlankLines(lines) ==
  LET RECURSIVE go(_, _)
      go(i, acc) ==
        IF i > Len(lines) THEN acc
        ELSE go(i + 1, IF Trim(lines[i]) # << >> THEN Append(acc, lines[i]) ELSE acc)
  IN go(1, << >>)

parseCSV(text) ==
  LET lines == NonBlankLines(Split(text, NL))
  IN IF Len(lines) = 0 THEN << >>
     ELSE LET headers == SplitFields(lines[1])
          IN [i \in 1..(Len(lines) - 1) |->
                MakeRow(headers, SplitFields(lines[i + 1]))]

\* row.name: undefined when the table has no such column.
Field(row, name) == IF name \in DOMAIN row THEN row[name] ELSE Undefined

\* filterFn(row).  A filter is a value: the closure of getUpcomingDepartures
\* over tripIdsForRoute and stopId, or any other pure predicate, given as the
\* set of the rows it accepts.
filterFnHolds(filterFn, row) ==
  IF filterFn.kind = "relevant"
  THEN /\ Field(row, K("trip_id")) \in filterFn.tripIds
       /\ Field(row, K("stop_id")) = filterFn.stopId
  ELSE row \in filterFn.accept

parseCSVFiltered(text, filterFn) ==
  LET lines   == Split(text, NL)
      headers == SplitFields(lines[1])
      RECURSIVE go(_, _)
      go(i, rows) ==
        IF i > Len(lines) THEN rows
        ELSE LET line == Trim(lines[i])
             IN IF line = << >> THEN go(i + 1, rows)
                ELSE LET row == MakeRow(headers, SplitFields(line))
                     IN go(i + 1, IF filterFnHolds(filterFn, row) THEN Append(rows, row)
                                  ELSE rows)
  IN go(2, << >>)

\* ------------------------------------------------------------ GTFS time

MsPerSecond == 1000
MsPerMinute == 60 * MsPerSecond
MsPerHour == 60 * MsPerMinute
MsPerDay == 24 * 60 * 60 * 1000

\* Local midnight of the calendar day of the valid Date t.
DayStart(t) == (t \div MsPerDay) * MsPerDay

\* Date.prototype.setHours(h, m, s, 0): MakeDate(Day(t), MakeTime(h, m, s, 0)),
\* Invalid Date as soon as one argument is NaN.
setHours(t, h, m, s) ==
  IF IsNaN(t) \/ IsNaN(h) \/ IsNaN(m) \/ IsNaN(s) THEN NaN
  ELSE DayStart(t) + h * MsPerHour + m * MsPerMinute + s * MsPerSecond

\* date.setDate(date.getDate() + n).
addDays(t, n) == IF IsNaN(t) \/ IsNaN(n) THEN NaN ELSE t + n * MsPerDay

\* timeStr.split(':') throws a TypeError when timeStr is undefined; nothing
\* else in parseGTFSTime throws.
parseGTFSTimeThrows(timeStr) == timeStr = Undefined

NthOrUndefined(parts, n) == IF n <= Len(parts) THEN parts[n] ELSE Undefined

\* A resolver that normalizes the hours and forgets the extra days.
parseGTFSTimeNoRollover(timeStr, baseDate) ==
  LET parts   == Split(timeStr, ":")
      hours0  == parseInt(NthOrUndefined(parts, 1))
      minutes == parseInt(NthOrUndefined(parts, 2))
      seconds == parseInt(NthOrUndefined(parts, 3))
  IN setHours(baseDate, JsRem(hours0, 24), minutes, seconds)

parseGTFSTime(timeStr, baseDate) ==
  LET parts     == Split(timeStr, ":")
      hours0    == parseInt(NthOrUndefined(parts, 1))
      minutes   == parseInt(NthOrUndefined(parts, 2))
      seconds   == parseInt(NthOrUndefined(parts, 3))
      extraDays == FloorDiv(hours0, 24)
      hours     == JsRem(hours0, 24)
      date      == setHours(baseDate, hours, minutes, seconds)
  IN IF NumLt(0, extraDays) THEN addDays(date, extraDays) ELSE date

\* ------------------------------------------------------------ departures

\* A join that takes the trips of every route.
TripIdsOfAllRoutes(tripRows, route) ==
  {Field(tripRows[i], K("trip_id")) : i \in 1..Len(tripRows)}

\* new Set(trips.filter(t => t.route_id === routeId).map(t => t.trip_id))
TripIdsForRoute(tripRows, route) ==
  {Field(tripRows[i], K("trip_id")) :
     i \in {j \in 1..Len(tripRows) : Field(tripRows[j], K("route_id")) = route}}

\* One turn of the loop of getUpcomingDepartures over a filtered row: the
\* pair pushed on `upcoming`, or nothing when parseGTFSTime throws.
DepartureOf(st, after) ==
  LET t0 == parseGTFSTime(Field(st, K("departure_time")), after)
      t1 == IF NumLt(t0, after) THEN t0 + MsPerDay ELSE t0
  IN [time |-> t1, st |-> st]

PushDeparture(acc, st, after) ==
  IF parseGTFSTimeThrows(Field(st, K("departure_time"))) THEN acc
  ELSE Append(acc, DepartureOf(st, after))

\* The comparator (a, b) => a[0] - b[0].
CompareFn(a, b) == NumSub(a.time, b.time)

\* Insertion of x into the sorted sequence s after every element that does
\* not compare greater: a stable sort step.
InsertSorted(s, x) ==
  LET RECURSIVE go(_)
      go(i) == IF i > Len(s) \/ NumLt(0, CompareFn(s[i], x))
               THEN SubSeq(s, 1, i - 1) \o << x >> \o SubSeq(s, i, Len(s))
               ELSE go(i + 1)
  IN go(1)

StableSort(s) ==
  LET RECURSIVE go(_, _)
      go(i, acc) == IF i > Len(s) THEN acc ELSE go(i + 1, InsertSorted(acc, s[i]))
  IN go(1, << >>)

PermutationsOf(s) ==
  {[i \in 1..Len(s) |-> s[p[i]]] :
     p \in {q \in [1..Len(s) -> 1..Len(s)] :
              \A i, j \in 1..Len(s) : q[i] = q[j] => i = j}}

\* Array.prototype.sort(comparefn).  The sort is stable; when comparefn
\* yields NaN for some pair it is not a consistent comparator and the order
\* of the result is implementation-defined: any permutation.
SortOutcomes(s) ==
  IF \E i \in 1..Len(s) : IsNaN(s[i].time) THEN PermutationsOf(s)
  ELSE {StableSort(s)}

\* The sequence `upcoming` at the end of the loop over relevantStopTimes.
UpcomingOf(rows, after) ==
  LET RECURSIVE go(_, _)
      go(i, acc) == IF i > Len(rows) THEN acc
                    ELSE go(i + 1, PushDeparture(acc, rows[i], after))
  IN go(1, << >>)

\* The filter (row) => tripIdsForRoute.has(row.trip_id) && row.stop_id === stopId
RelevantFilter(tripIds, stop) ==
  [kind |-> "relevant", tripIds |-> tripIds, stopId |-> stop]

RelevantStopTimes(text, tripIds, stop) ==
  parseCSVFiltered(text, RelevantFilter(tripIds, stop))

\* ------------------------------------------------------------ feeds

\* The archives the feed source may serve.  Bytes are named; "X" is a body
\* that is no ZIP archive (unzipSync throws on it).
T08 == << "0", "8", ":", "0", "0", ":", "0", "0" >>
T0930 == << "0", "9", ":", "3", "0", ":", "0", "0" >>

TripsHeader == << "route_id", ",", "trip_id", NL >>
StopTimesHeader ==
  << "trip_id", ",", "stop_id", ",", "stop_sequence", ",", "departure_time", NL >>

FeedA ==
  [f \in {"trips.txt", "stop_times.txt"} |->
     IF f = "trips.txt" THEN TripsHeader \o << "R1", ",", "T1", NL >>
     ELSE StopTimesHeader \o << "T1", ",", "S1", ",", "1", "," >> \o T08 \o << NL >>]

FeedB ==
  [f \in {"trips.txt", "stop_times.txt"} |->
     IF f = "trips.txt" THEN TripsHeader \o << "R1", ",", "T2", NL >>
     ELSE StopTimesHeader \o << "T2", ",", "S1", ",", "1", "," >> \o T0930 \o << NL >>]

ValidBytes == {"A", "B"}
AllBytes == ValidBytes \cup {"X"}

unzipSyncThrows(bytes) == bytes \notin ValidBytes
unzipSync(bytes) == IF bytes = "A" THEN FeedA ELSE FeedB

\* ------------------------------------------------------------ state

CACHE_TTL == 3600 * 6 * 1000

Procs == {"p1", "p2"}

\* Bounds of the model.
MaxFetch == 2
MaxTicks == 2
TickStep == CACHE_TTL \div 2

\* Date.now() when the worker starts: more than one TTL after the epoch, so
\* that the initial timestamp 0 is never fresh.
StartClock == CACHE_TTL

FetchFailures == {"transport", "status"}

NoZip == [id |-> 0, bytes |-> "none"]
NoUnzipped == [src |-> 0, files |-> << >>]
NoTable == [src |-> 0, rows |-> << >>]

VARIABLES
  cache,     \* the module-level cache object of gtfs-utils.js
  clock,     \* Date.now()
  nextId,    \* identity of the next Uint8Array a download creates
  req,       \* per request: the position and the locals of its handler
  lastWrite, \* history: the getCachedZip call that last assigned cache.zipData
  lastHit,   \* history: what the last cache hit since that write returned
  dep,       \* the departure engine run on its own (SpecDep)
  run        \* one library function or handler run on its own

vars == << cache, clock, nextId, req, lastWrite, lastHit, dep, run >>

IdleReq ==
  [pc |-> "idle", now |-> 0, found |-> "none", raced |-> FALSE, fetches |-> 0,
   fetched |-> "none", zipData |-> NoZip, zip |-> NoZip, error |-> "none",
   trips |-> NoTable, stSrc |-> 0, relevant |-> << >>]

InitCache ==
  [zipData |-> NoZip, unzipped |-> NoUnzipped, parsedFiles |-> << >>,
   timestamp |-> 0]

IdleDep == [pc |-> "off"]

IdleRun == [pc |-> "off"]

Init ==
  /\ cache = InitCache
  /\ clock = StartClock
  /\ nextId = 1
  /\ req = [p \in Procs |-> IdleReq]
  /\ lastWrite = [id |-> 0, now |-> 0]
  /\ lastHit = NoZip
  /\ dep = IdleDep
  /\ run = IdleRun

\* ------------------------------------------------------------ getCachedZip

\* The hit test with the comparison turned round.
CacheHitInverted(now) ==
  /\ cache.zipData # NoZip
  /\ cache.unzipped # NoUnzipped
  /\ now - cache.timestamp > CACHE_TTL

\* The test of line 36: cache.zipData && cache.unzipped &&
\* now - cache.timestamp < CACHE_TTL.
CacheHit(now) ==
  /\ cache.zipData # NoZip
  /\ cache.unzipped # NoUnzipped
  /\ now - cache.timestamp < CACHE_TTL

InRefresh(q) == req[q].pc \in {"fetching", "importing"}

\* What a call finds in the slot, in the words of the specification: a
\* snapshot is held when both the raw bytes and the entries are there.
Found(now) ==
  IF cache.zipData = NoZip \/ cache.unzipped = NoUnzipped THEN "empty"
  ELSE IF now - cache.timestamp >= CACHE_TTL THEN "expired"
  ELSE "fresh"

\* A request calls getCachedZip(url): lines 35-38 run, and on a miss
\* downloadGTFSZip calls fetch(url) and the request is suspended on it.
Call(p) ==
  /\ req[p].pc = "idle"
  /\ LET now == clock
         r0  == [IdleReq EXCEPT !.now = now, !.found = Found(now)]
     IN IF CacheHit(now)
        THEN /\ req' = [req EXCEPT ![p] =
                          [r0 EXCEPT !.pc = "zipReady", !.zip = cache.zipData]]
             /\ lastHit' = cache.zipData
             /\ UNCHANGED nextId
        ELSE /\ nextId <= MaxFetch
             /\ req' = [q \in Procs |->
                          IF q = p
                          THEN [r0 EXCEPT !.pc = "fetching", !.fetches = 1,
                                          !.zipData = [id |-> nextId, bytes |-> "none"],
                                          !.raced = \E o \in Procs \ {p} : InRefresh(o)]
                          ELSE IF InRefresh(q) THEN [req[q] EXCEPT !.raced = TRUE]
                          ELSE req[q]]
             /\ nextId' = nextId + 1
             /\ UNCHANGED lastHit
  /\ UNCHANGED << cache, clock, lastWrite, dep, run >>

\* A download that tries once more after a failure.
FetchFailsRetry(p, out) ==
  /\ req' = [req EXCEPT ![p] =
               IF @.fetches < 2 THEN [@ EXCEPT !.fetches = @ + 1]
               ELSE [@ EXCEPT !.pc = "failed", !.fetched = "failed",
                              !.error = "FetchError"]]
  /\ UNCHANGED << cache, clock, nextId, lastWrite, lastHit, dep, run >>

\* A refresh that falls back on the stale snapshot when the download fails.
FetchFailsServeStale(p, out) ==
  /\ req' = [req EXCEPT ![p] =
               IF cache.zipData # NoZip
               THEN [@ EXCEPT !.pc = "zipReady", !.fetched = "failed",
                              !.zip = cache.zipData]
               ELSE [@ EXCEPT !.pc = "failed", !.fetched = "failed",
                              !.error = "FetchError"]]
  /\ UNCHANGED << cache, clock, nextId, lastWrite, lastHit, dep, run >>

\* A refresh that empties the slot when the download fails.
FetchFailsClearsSlot(p, out) ==
  /\ req' = [req EXCEPT ![p] = [@ EXCEPT !.pc = "failed", !.fetched = "failed",
                                         !.error = "FetchError"]]
  /\ cache' = InitCache
  /\ UNCHANGED << clock, nextId, lastWrite, lastHit, dep, run >>

\* downloadGTFSZip, lines 26-28: a rejected fetch, a response that is not
\* ok or a rejected arrayBuffer() is rethrown as one Error; getCachedZip
\* does not catch it, and the handler answers 503.
FetchFails(p, out) ==
  /\ req' = [req EXCEPT ![p] = [@ EXCEPT !.pc = "failed", !.fetched = "failed",
                                         !.error = "FetchError"]]
  /\ UNCHANGED << cache, clock, nextId, lastWrite, lastHit, dep, run >>

\* downloadGTFSZip, lines 24-25, and the resumption of line 40: the body
\* arrives, zipData is the new Uint8Array, and getCachedZip is suspended
\* again on the dynamic import of line 43.
FetchSucceeds(p, bytes) ==
  /\ req' = [req EXCEPT ![p] = [@ EXCEPT !.pc = "importing", !.fetched = "ok",
                                         !.zipData = [id |-> @.id, bytes |-> bytes]]]
  /\ UNCHANGED << cache, clock, nextId, lastWrite, lastHit, dep, run >>

FetchResponds(p) ==
  /\ req[p].pc = "fetching"
  /\ \E out \in AllBytes \cup FetchFailures :
       IF out \in FetchFailures THEN FetchFails(p, out)
       ELSE FetchSucceeds(p, out)

\* A refresh that forgets cache.parsedFiles.clear().
WriteSlotNoClear(p) ==
  /\ req[p].pc = "importing"
  /\ LET zipData == req[p].zipData
     IN /\ lastWrite' = [id |-> zipData.id, now |-> req[p].now]
        /\ lastHit' = NoZip
        /\ IF unzipSyncThrows(zipData.bytes)
           THEN /\ cache' = [cache EXCEPT !.zipData = zipData]
                /\ req' = [req EXCEPT ![p] =
                             [@ EXCEPT !.pc = "failed", !.error = "ExtractionError"]]
           ELSE /\ cache' = [cache EXCEPT
                               !.zipData = zipData,
                               !.unzipped = [src |-> zipData.id,
                                             files |-> unzipSync(zipData.bytes)],
                               !.timestamp = req[p].now]
                /\ req' = [req EXCEPT ![p] =
                             [@ EXCEPT !.pc = "zipReady", !.zip = zipData]]
  /\ UNCHANGED << clock, nextId, dep, run >>

\* getCachedZip, lines 44-49, run without suspension.  unzipSync throws
\* on bytes that are no archive, after line 44 has assigned cache.zipData.
WriteSlot(p) ==
  /\ req[p].pc = "importing"
  /\ LET zipData == req[p].zipData
     IN /\ lastWrite' = [id |-> zipData.id, now |-> req[p].now]
        /\ lastHit' = NoZip
        /\ IF unzipSyncThrows(zipData.bytes)
           THEN /\ cache' = [cache EXCEPT !.zipData = zipData]
                /\ req' = [req EXCEPT ![p] =
                             [@ EXCEPT !.pc = "failed", !.error = "ExtractionError"]]
           ELSE /\ cache' = [zipData     |-> zipData,
                             unzipped    |-> [src |-> zipData.id,
                                              files |-> unzipSync(zipData.bytes)],
                             parsedFiles |-> << >>,
                             timestamp   |-> req[p].now]
                /\ req' = [req EXCEPT ![p] =
                             [@ EXCEPT !.pc = "zipReady", !.zip = zipData]]
  /\ UNCHANGED << clock, nextId, dep, run >>

\* ------------------------------------------------------------ table parses

\* Lines 64-67 (and 90-93): cache.unzipped is filled from the caller's
\* zipData when it is still null.
EnsureUnzipped(c, zipData) ==
  IF c.unzipped = NoUnzipped /\ ~unzipSyncThrows(zipData.bytes)
  THEN [c EXCEPT !.unzipped = [src |-> zipData.id, files |-> unzipSync(zipData.bytes)]]
  ELSE c

\* The error parseCSVFromZip / parseCSVFromZipFiltered ends with after its
\* dynamic import, "none" when it returns rows.
ParseError(c, zipData, filename) ==
  IF c.unzipped = NoUnzipped /\ unzipSyncThrows(zipData.bytes) THEN "ExtractionError"
  ELSE IF filename \notin DOMAIN EnsureUnzipped(c, zipData).unzipped.files
       THEN "MissingEntryError"
  ELSE "none"

\* Lines 73-74: the table parsed from the entry now in cache.unzipped.
ParsedTable(c, filename) ==
  [src |-> c.unzipped.src, rows |-> parseCSV(c.unzipped.files[filename])]

\* A parser that memoizes every table it parses.
MemoizeAll(c, filename, table) ==
  [c EXCEPT !.parsedFiles = (filename :> table) @@ @]

\* Lines 76-79: every table but stop_times.txt is memoized.
Memoize(c, filename, table) ==
  IF filename # "stop_times.txt"
  THEN [c EXCEPT !.parsedFiles = (filename :> table) @@ @]
  ELSE c

\* The query of the model: handleDepartures for route R1 at stop S1.
QueryRoute == << "R1" >>
QueryStop == << "S1" >>

\* getUpcomingDepartures, line 185:
\* parseCSVFromZip(zip, 'trips.txt') runs lines 57-59 and either returns the
\* memoized table or is suspended on the dynamic import of line 62.
StartTrips(p) ==
  /\ req[p].pc = "zipReady"
  /\ req' = [req EXCEPT ![p] =
               IF "trips.txt" \in DOMAIN cache.parsedFiles
               THEN [@ EXCEPT !.pc = "tripsReady",
                              !.trips = cache.parsedFiles["trips.txt"]]
               ELSE [@ EXCEPT !.pc = "parsingTrips"]]
  /\ UNCHANGED << cache, clock, nextId, lastWrite, lastHit, dep, run >>

\* parseCSVFromZip, lines 64-81, after the import.
ParseTrips(p) ==
  /\ req[p].pc = "parsingTrips"
  /\ LET err == ParseError(cache, req[p].zip, "trips.txt")
         c1  == EnsureUnzipped(cache, req[p].zip)
     IN IF err # "none"
        THEN /\ cache' = c1
             /\ req' = [req EXCEPT ![p] = [@ EXCEPT !.pc = "failed", !.error = err]]
        ELSE LET table == ParsedTable(c1, "trips.txt")
             IN /\ cache' = Memoize(c1, "trips.txt", table)
                /\ req' = [req EXCEPT ![p] =
                             [@ EXCEPT !.pc = "tripsReady", !.trips = table]]
  /\ UNCHANGED << clock, nextId, lastWrite, lastHit, dep, run >>

\* getUpcomingDepartures, lines 186-199: no trip of the route ends the
\* query with []; otherwise parseCSVFromZipFiltered is called and suspended
\* on the dynamic import of line 88.
StartFilter(p) ==
  /\ req[p].pc = "tripsReady"
  /\ req' = [req EXCEPT ![p] =
               IF TripIdsForRoute(req[p].trips.rows, QueryRoute) = {}
               THEN [@ EXCEPT !.pc = "done"]
               ELSE [@ EXCEPT !.pc = "filtering"]]
  /\ UNCHANGED << cache, clock, nextId, lastWrite, lastHit, dep, run >>

\* parseCSVFromZipFiltered, lines 90-100: the last read of the shared cache
\* by the query.  What getUpcomingDepartures does next with the rows (lines
\* 201-222) touches no shared state; SpecDep covers it.
FilterStopTimes(p) ==
  /\ req[p].pc = "filtering"
  /\ LET err == ParseError(cache, req[p].zip, "stop_times.txt")
         c1  == EnsureUnzipped(cache, req[p].zip)
     IN /\ cache' = c1
        /\ IF err # "none"
           THEN req' = [req EXCEPT ![p] = [@ EXCEPT !.pc = "failed", !.error = err]]
           ELSE LET tripIds  == TripIdsForRoute(req[p].trips.rows, QueryRoute)
                    relevant == RelevantStopTimes(c1.unzipped.files["stop_times.txt"],
                                                  tripIds, QueryStop)
                IN req' = [req EXCEPT ![p] =
                             [@ EXCEPT !.pc = "done", !.stSrc = c1.unzipped.src,
                                       !.relevant = relevant]]
  /\ UNCHANGED << clock, nextId, lastWrite, lastHit, dep, run >>

\* The handler has answered; the worker takes the next request.
Respond(p) ==
  /\ req[p].pc \in {"done", "failed"}
  /\ req' = [req EXCEPT ![p] = IdleReq]
  /\ UNCHANGED << cache, clock, nextId, lastWrite, lastHit, dep, run >>

\* Time passes.
Tick ==
  /\ clock < StartClock + MaxTicks * TickStep
  /\ clock' = clock + TickStep
  /\ UNCHANGED << cache, nextId, req, lastWrite, lastHit, dep, run >>

Next ==
  \/ \E p \in Procs : Call(p)
  \/ \E p \in Procs : FetchResponds(p)
  \/ \E p \in Procs : WriteSlot(p)
  \/ \E p \in Procs : StartTrips(p)
  \/ \E p \in Procs : ParseTrips(p)
  \/ \E p \in Procs : StartFilter(p)
  \/ \E p \in Procs : FilterStopTimes(p)
  \/ \E p \in Procs : Respond(p)
  \/ Tick

Spec == Init /\ [][Next]_vars

\* ------------------------------------------------------------ SpecDep

\* getUpcomingDepartures run on its own, against one snapshot, for every
\* stop_times table of at most MaxRows rows drawn from RowChoices.
MaxRows == 2

T2530 == << "2", "5", ":", "3", "0", ":", "0", "0" >>
T10 == << "1", "0", ":", "0", "0", ":", "0", "0" >>
T2345 == << "2", "3", ":", "4", "5", ":", "0", "0" >>
T07 == << "0", "7", ":", "0", "0", ":", "0", "0" >>
TEmpty == << >>
TNonNumeric == << "zz", ":", "0", "0", ":", "0", "0" >>
TNoSeconds == << "0", "8", ":", "0", "5" >>
TNegative == << "-", "1", ":", "0", "0", ":", "0", "0" >>

RowChoices ==
  {[trip |-> "T1", stop |-> "S1", time |-> t] :
     t \in {T08, T2530, T10, TEmpty, TNonNumeric, TNoSeconds, TNegative}}
  \cup {[trip |-> "T2", stop |-> "S1", time |-> T2345],
        [trip |-> "T3", stop |-> "S1", time |-> T07],
        [trip |-> "T1", stop |-> "S2", time |-> T07],
        [trip |-> "T1", stop |-> "S2", time |-> T08]}

DigitSym(i) ==
  CASE i = 1 -> "1" [] i = 2 -> "2" [] i = 3 -> "3" [] i = 4 -> "4" [] OTHER -> "9"

\* The text of a stop_times.txt whose i-th row has stop_sequence i.
StopTimesText(header, rows) ==
  LET RECURSIVE go(_, _)
      go(i, acc) ==
        IF i > Len(rows) THEN acc
        ELSE go(i + 1, acc \o << rows[i].trip, ",", rows[i].stop, ",", DigitSym(i), "," >>
                           \o rows[i].time \o << NL >>)
  IN go(1, header)

\* The header line of stop_times.txt: the full one, one without the
\* departure_time column, and the full one after an empty first line.
StopTimesHeaders ==
  {StopTimesHeader, << "trip_id", ",", "stop_id", ",", "stop_sequence", NL >>,
   << NL >> \o StopTimesHeader}

DepTrips ==
  TripsHeader \o << "R1", ",", "T1", NL, "R1", ",", "T2", NL, "R2", ",", "T3", NL >>

RowSeqs == UNION {[1..n -> RowChoices] : n \in 0..MaxRows}

\* The reference instants: midnight, mid-morning with milliseconds, late
\* evening, all on day 1 of the model.
AfterTimes ==
  {MsPerDay, MsPerDay + 10 * MsPerHour + 500, MsPerDay + 23 * MsPerHour + 30 * MsPerMinute}

DepInit ==
  /\ cache = InitCache
  /\ clock = StartClock
  /\ nextId = 1
  /\ req = [p \in Procs |-> IdleReq]
  /\ lastWrite = [id |-> 0, now |-> 0]
  /\ lastHit = NoZip
  /\ run = IdleRun
  /\ \E route \in {<< "R1" >>, << "R9" >>}, after \in AfterTimes,
        header \in StopTimesHeaders, rows \in RowSeqs :
       dep = [pc |-> "start", routeId |-> route, stopId |-> << "S1" >>,
              afterTime |-> after, tripsText |-> DepTrips,
              stopTimesText |-> StopTimesText(header, rows),
              trips |-> << >>, relevantStopTimes |-> << >>, i |-> 1,
              upcoming |-> << >>, results |-> << >>]

\* Lines 185-192: the trips of the route; none ends the query with [].
DepTripsForRoute ==
  /\ dep.pc = "start"
  /\ LET trips == parseCSV(dep.tripsText)
     IN dep' = [dep EXCEPT !.trips = trips,
                           !.pc = IF TripIdsForRoute(trips, dep.routeId) = {}
                                  THEN "done" ELSE "filter"]
  /\ UNCHANGED << cache, clock, nextId, req, lastWrite, lastHit, run >>

\* Lines 195-199: the filtered parse of stop_times.txt.
DepFilter ==
  /\ dep.pc = "filter"
  /\ dep' = [dep EXCEPT
               !.relevantStopTimes =
                  RelevantStopTimes(dep.stopTimesText,
                                    TripIdsForRoute(dep.trips, dep.routeId), dep.stopId),
               !.pc = "loop"]
  /\ UNCHANGED << cache, clock, nextId, req, lastWrite, lastHit, run >>

\* Lines 203-217: one turn of the loop.
DepLoop ==
  /\ dep.pc = "loop"
  /\ dep.i <= Len(dep.relevantStopTimes)
  /\ dep' = [dep EXCEPT
               !.upcoming = PushDeparture(@, dep.relevantStopTimes[dep.i], dep.afterTime),
               !.i = @ + 1]
  /\ UNCHANGED << cache, clock, nextId, req, lastWrite, lastHit, run >>

\* Lines 220-222: the sort and the return.
DepSort ==
  /\ dep.pc = "loop"
  /\ dep.i > Len(dep.relevantStopTimes)
  /\ \E sorted \in SortOutcomes(dep.upcoming) :
       dep' = [dep EXCEPT !.results = sorted, !.pc = "done"]
  /\ UNCHANGED << cache, clock, nextId, req, lastWrite, lastHit, run >>

DepNext == DepTripsForRoute \/ DepFilter \/ DepLoop \/ DepSort

SpecDep == DepInit /\ [][DepNext]_vars

\* ------------------------------------------------------------ properties

\* C1.  A call made while a snapshot is held and now - fetchedAt < TTL
\* returns the very zipData object of the slot, fetches nothing and leaves
\* the cache as it is; it returns the same object as the hit before it when
\* the slot was not written in between.
C1_HitReturnsHeldSnapshot ==
  [][\A p \in Procs :
       (req[p].pc = "idle" /\ req'[p].pc # "idle" /\ Found(clock) = "fresh")
         => /\ req'[p].pc = "zipReady"
            /\ req'[p].zip = cache.zipData
            /\ req'[p].fetches = 0
            /\ nextId' = nextId
            /\ cache' = cache
            /\ (lastHit # NoZip => req'[p].zip = lastHit)]_vars

\* Two requests served the same object by hits, some time after the fetch.
C1_Witness ==
  /\ \A p \in Procs : req[p].found = "fresh" /\ req[p].zip = cache.zipData
  /\ \E p \in Procs : req[p].now - cache.timestamp = TickStep

\* C2.  A call that found the slot empty or expired has invoked fetch exactly
\* once, while it waits and after it has ended, also when the fetch failed;
\* a call that found a fresh snapshot has invoked it not at all.
C2_ExactlyOneFetchPerMiss ==
  \A p \in Procs :
    /\ req[p].found \in {"empty", "expired"} => req[p].fetches = 1
    /\ req[p].found = "fresh" => req[p].fetches = 0
    /\ req[p].fetched = "failed" => req[p].pc = "failed"

\* A call on an expired snapshot has ended after its one fetch.
C2_Witness ==
  \E p \in Procs :
    /\ req[p].found = "expired"
    /\ req[p].pc = "zipReady"
    /\ req[p].fetches = 1
    /\ req[p].zip = cache.zipData

\* C3.  A call whose fetch failed ends with the fetch error and returns
\* nothing: never the stale snapshot.
C3_FetchFailurePropagates ==
  \A p \in Procs :
    req[p].fetched = "failed"
      => /\ req[p].pc = "failed"
         /\ req[p].error = "FetchError"
         /\ req[p].zip = NoZip

\* The fetch of a call on an expired snapshot failed while the stale
\* snapshot was still in the slot.
C3_Witness ==
  \E p \in Procs :
    /\ req[p].fetched = "failed"
    /\ req[p].found = "expired"
    /\ cache.zipData # NoZip
    /\ cache.unzipped # NoUnzipped

\* C4.  The entries held in the slot are the extraction of the raw bytes
\* held in the slot, in every reachable state.
C4_SnapshotConsistent ==
  cache.unzipped # NoUnzipped
    => /\ cache.zipData # NoZip
       /\ ~unzipSyncThrows(cache.zipData.bytes)
       /\ cache.unzipped.src = cache.zipData.id
       /\ cache.unzipped.files = unzipSync(cache.zipData.bytes)

\* C5.  Every memoized table is the parse of the entry now in cache.unzipped,
\* and parseCSVFromZip returns such a table, whatever refresh ran meanwhile.
C5_MemoFromCurrentEntries ==
  /\ [](\A f \in DOMAIN cache.parsedFiles :
          /\ cache.unzipped # NoUnzipped
          /\ f \in DOMAIN cache.unzipped.files
          /\ cache.parsedFiles[f] =
               [src |-> cache.unzipped.src,
                rows |-> parseCSV(cache.unzipped.files[f])])
  /\ [][\A p \in Procs :
          (req[p].pc \in {"zipReady", "parsingTrips"} /\ req'[p].pc = "tripsReady")
            => req'[p].trips =
                 [src |-> cache'.unzipped.src,
                  rows |-> parseCSV(cache'.unzipped.files["trips.txt"])]]_vars

\* A request still holds the trips table of a replaced snapshot while the
\* table memoized in the slot is again that of the current one.
C5_Witness ==
  /\ "trips.txt" \in DOMAIN cache.parsedFiles
  /\ \E p \in Procs :
       /\ req[p].trips # NoTable
       /\ req[p].trips.src # cache.unzipped.src
       /\ req[p].trips.rows # cache.parsedFiles["trips.txt"].rows

\* C6.  The trips table and the stop_times rows one departures query joins
\* come from the same snapshot.
C6_JoinFromOneSnapshot ==
  \A p \in Procs :
    (req[p].pc = "done" /\ req[p].stSrc # 0) => req[p].trips.src = req[p].stSrc

\* C7.  Once two calls that raced on a miss and both downloaded a body have
\* ended, the slot holds the snapshot of the call that wrote last: its raw
\* bytes, its entries, its fetchedAt, and no table memoized from another
\* snapshot.
Ended(p) == req[p].pc \notin {"idle", "fetching", "importing"}

C7_LastWriterWins ==
  (\A p \in Procs : req[p].raced /\ req[p].fetched = "ok" /\ Ended(p))
    => /\ cache.zipData.id = lastWrite.id
       /\ cache.unzipped.src = lastWrite.id
       /\ cache.timestamp = lastWrite.now
       /\ \A f \in DOMAIN cache.parsedFiles : cache.parsedFiles[f].src = lastWrite.id

\* C8.  Every event getUpcomingDepartures returns has a departure instant
\* that is not before the reference instant.
C8_DeparturesNotBeforeT ==
  dep.pc = "done"
    => \A k \in 1..Len(dep.results) : NumGe(dep.results[k].time, dep.afterTime)

\* C9.  The sequence getUpcomingDepartures returns is non-decreasing in the
\* departure instant.
C9_SortedAscending ==
  dep.pc = "done"
    => \A k, l \in 1..Len(dep.results) :
         k < l => NumLe(dep.results[k].time, dep.results[l].time)

\* A departure_time that is not three fields of digits: undefined, empty,
\* with a field missing, or with a field that is no number.
Malformed(timeStr) ==
  \/ timeStr = Undefined
  \/ LET parts == Split(timeStr, ":")
     IN \/ Len(parts) # 3
        \/ \E n \in 1..Len(parts) :
             \/ parts[n] = << >>
             \/ \E c \in 1..Len(parts[n]) : parts[n][c] \notin Digits

WellFormedRow(st) == ~Malformed(Field(st, K("departure_time")))

\* C10.  The rows with a malformed departure_time are dropped: the result
\* holds exactly the matching rows with a well-formed time.
C10_MalformedRowsDropped ==
  dep.pc = "done"
    => /\ \A k \in 1..Len(dep.results) : WellFormedRow(dep.results[k].st)
       /\ Len(dep.results) =
            Cardinality({k \in 1..Len(dep.relevantStopTimes) :
                           WellFormedRow(dep.relevantStopTimes[k])})

\* ------------------------------------------------------------ SpecTime

\* parseGTFSTime run on its own, on every time string H:MM:SS or HH:MM:SS
\* with hours up to MaxHours and on several base dates.
MaxHours == 49

DigitChar(d) == CHOOSE c \in Digits : DigitVal(c) = d

\* The decimal numeral of n >= 0.
Numeral(n) ==
  LET RECURSIVE go(_)
      go(k) == IF k < 10 THEN << DigitChar(k) >>
               ELSE Append(go(k \div 10), DigitChar(k % 10))
  IN go(n)

\* The numeral of n, with a leading zero when it has one digit.
Pad2(n) == IF n < 10 THEN << "0" >> \o Numeral(n) ELSE Numeral(n)

\* The text of a GTFS time; hours are zero-padded or not.
TimeText(hh, mm, ss, padded) ==
  (IF padded THEN Pad2(hh) ELSE Numeral(hh)) \o << ":" >> \o Pad2(mm)
    \o << ":" >> \o Pad2(ss)

TimeMinutes == {0, 5, 10, 30, 59}
TimeSeconds == {0, 30, 59}

\* Base dates: a midnight, an instant with milliseconds, the last
\* millisecond of a day.
BaseDates ==
  {MsPerDay, MsPerDay + 10 * MsPerHour + 500, 3 * MsPerDay - 1}

shared == << cache, clock, nextId, req, lastWrite, lastHit, dep >>

TimeInit ==
  /\ cache = InitCache
  /\ clock = StartClock
  /\ nextId = 1
  /\ req = [p \in Procs |-> IdleReq]
  /\ lastWrite = [id |-> 0, now |-> 0]
  /\ lastHit = NoZip
  /\ dep = IdleDep
  /\ \E hh \in 0..MaxHours, mm \in TimeMinutes, ss \in TimeSeconds,
        padded \in BOOLEAN, baseDate \in BaseDates :
       run = [pc |-> "time", hh |-> hh, mm |-> mm, ss |-> ss,
              timeStr |-> TimeText(hh, mm, ss, padded), baseDate |-> baseDate,
              date |-> NaN]

\* The call parseGTFSTime(timeStr, baseDate).
ResolveTime ==
  /\ run.pc = "time"
  /\ run' = [run EXCEPT !.pc = "resolved",
                        !.date = parseGTFSTime(run.timeStr, run.baseDate)]
  /\ UNCHANGED shared

TimeNext == ResolveTime

SpecTime == TimeInit /\ [][TimeNext]_vars

\* C11.  For a well-formed time string and a base date D, parseGTFSTime
\* returns the instant on calendar day D + floor(HH / 24) at wall-clock
\* (HH mod 24):MM:SS; "25:10:00" is 01:10:00 on the day after D and
\* "09:05:00" is 09:05:00 on D.
C11_TimeResolvedWithRollover ==
  run.pc = "resolved"
    => LET day0 == run.baseDate \div MsPerDay
           day  == run.date \div MsPerDay
           wall == run.date % MsPerDay
       IN /\ ~IsNaN(run.date)
          /\ day = day0 + run.hh \div 24
          /\ wall = ((run.hh % 24) * 3600 + run.mm * 60 + run.ss) * 1000
          /\ run.timeStr = << "2", "5", ":", "1", "0", ":", "0", "0" >>
               => run.date = (day0 + 1) * MsPerDay + 70 * MsPerMinute
          /\ run.timeStr = << "0", "9", ":", "0", "5", ":", "0", "0" >>
               => run.date = day0 * MsPerDay + 545 * MsPerMinute

\* "25:10:00" resolved from a base date that is not a midnight.
C11_Witness ==
  /\ run.pc = "resolved"
  /\ run.timeStr = << "2", "5", ":", "1", "0", ":", "0", "0" >>
  /\ run.baseDate = MsPerDay + 10 * MsPerHour + 500
  /\ run.date = 2 * MsPerDay + 70 * MsPerMinute


\* The rows of the stop_times table of the snapshot that the query
\* (routeId, stopId) joins: stop_id is the stop and trip_id is a trip of the
\* route.  The table is the one parseCSV yields.
DepTable == parseCSV(dep.stopTimesText)

DepMatching ==
  LET tripIds == TripIdsForRoute(parseCSV(dep.tripsText), dep.routeId)
  IN {k \in 1..Len(DepTable) :
        /\ Field(DepTable[k], K("trip_id")) \in tripIds
        /\ Field(DepTable[k], K("stop_id")) = dep.stopId}

\* C12.  getUpcomingDepartures returns exactly one event per stop_times row
\* of the stop whose trip is a trip of the route, paired with that row, and
\* no other event; for the feed R1 -> T1 -> [(T1, S2, 1, 08:00:00),
\* (T1, S1, 2, 25:30:00)] the query (R1, S1, day 1 at 00:00:00) returns one
\* event, at 01:30:00 on day 2.
C12_JoinExact ==
  dep.pc = "done"
    => /\ Len(dep.results) = Cardinality(DepMatching)
       /\ \A k \in DepMatching :
            Cardinality({j \in 1..Len(dep.results) : dep.results[j].st = DepTable[k]})
              = Cardinality({l \in DepMatching : DepTable[l] = DepTable[k]})
       /\ ( /\ dep.routeId = << "R1" >>
            /\ dep.afterTime = MsPerDay
            /\ dep.stopTimesText =
                 StopTimesText(StopTimesHeader,
                               << [trip |-> "T1", stop |-> "S2", time |-> T08],
                                  [trip |-> "T1", stop |-> "S1", time |-> T2530] >>) )
            => /\ Len(dep.results) = 1
               /\ dep.results[1].time = 2 * MsPerDay + 90 * MsPerMinute
               /\ Field(dep.results[1].st, K("stop_sequence")) = << "2" >>


\* ------------------------------------------------------------ SpecCSV

\* parseCSV and parseCSVFiltered run on the same text, for every text of at
\* most MaxLines lines drawn from CsvLines, with and without a final newline,
\* and for several pure predicates.
MaxLines == 3

CsvLines ==
  {<< >>,
   << " " >>,
   << "a", ",", "b" >>,
   << "1", ",", "2" >>,
   << "3" >>,
   << " ", "1", ",", " ", "2", "\r" >>}

\* lines.join('\n')
JoinLines(lines) ==
  LET RECURSIVE go(_, _)
      go(i, acc) ==
        IF i > Len(lines) THEN acc
        ELSE go(i + 1, IF i = 1 THEN lines[1] ELSE acc \o << NL >> \o lines[i])
  IN go(1, << >>)

CsvTexts ==
  LET seqs == UNION {[1..n -> CsvLines] : n \in 0..MaxLines}
  IN {JoinLines(ls) : ls \in seqs} \cup {JoinLines(ls) \o << NL >> : ls \in seqs}

\* Every row object a parser can build from the text: any line as the
\* header, any line as the values.
CsvRowUniverse(text) ==
  LET lines == Split(text, NL)
  IN {MakeRow(SplitFields(lines[h]), SplitFields(lines[v])) :
        h \in 1..Len(lines), v \in 1..Len(lines)}

\* Pure predicates over rows, each given by the set of rows it accepts:
\* all rows, no row, the rows with a = "1", the rows with an empty b.
CsvFilters(text) ==
  LET U == CsvRowUniverse(text)
  IN {[kind |-> "set", accept |-> A] :
        A \in {U, {},
               {r \in U : Field(r, K("a")) = << "1" >>},
               {r \in U : Field(r, K("b")) = << >>}}}

CsvInit ==
  /\ cache = InitCache
  /\ clock = StartClock
  /\ nextId = 1
  /\ req = [p \in Procs |-> IdleReq]
  /\ lastWrite = [id |-> 0, now |-> 0]
  /\ lastHit = NoZip
  /\ dep = IdleDep
  /\ \E text \in CsvTexts :
       \E filterFn \in CsvFilters(text) :
         run = [pc |-> "csv", text |-> text, filterFn |-> filterFn,
                full |-> FALSE, rows |-> << >>,
                filter |-> FALSE, filtered |-> << >>]

\* The call parseCSV(text).
CsvParse ==
  /\ run.pc = "csv"
  /\ ~run.full
  /\ run' = [run EXCEPT !.full = TRUE, !.rows = parseCSV(run.text)]
  /\ UNCHANGED shared

\* The call parseCSVFiltered(text, filterFn).
CsvParseFiltered ==
  /\ run.pc = "csv"
  /\ ~run.filter
  /\ run' = [run EXCEPT !.filter = TRUE,
                        !.filtered = parseCSVFiltered(run.text, run.filterFn)]
  /\ UNCHANGED shared

CsvNext == CsvParse \/ CsvParseFiltered

SpecCSV == CsvInit /\ [][CsvNext]_vars

\* The rows of a table that satisfy the predicate, in the order of the table.
RowsSatisfying(rows, filterFn) ==
  LET RECURSIVE go(_, _)
      go(i, acc) ==
        IF i > Len(rows) THEN acc
        ELSE go(i + 1, IF filterFnHolds(filterFn, rows[i]) THEN Append(acc, rows[i])
                       ELSE acc)
  IN go(1, << >>)

\* C13.  parseCSVFiltered(text, pred) is the sequence of the rows of
\* parseCSV(text) that satisfy pred, in the same order, for every text,
\* blank lines before, between or after the header and the rows included.
C13_FilteredIsSubsequence ==
  (run.pc = "csv" /\ run.full /\ run.filter)
    => run.filtered = RowsSatisfying(run.rows, run.filterFn)


\* ------------------------------------------------------------ KV keys

\* In this part a string is a sequence of single characters, but for the
\* fixed prefixes of the keys, which are one symbol each.

\* String.prototype.charCodeAt for the characters of the model's URLs.
CharCode(c) ==
  CASE c = "." -> 46 [] c = "/" -> 47 [] c = ":" -> 58
    [] c = "A" -> 65 [] c = "B" -> 66 [] c = "C" -> 67
    [] c = "a" -> 97 [] c = "b" -> 98 [] c = "f" -> 102 [] c = "h" -> 104
    [] c = "i" -> 105 [] c = "p" -> 112 [] c = "s" -> 115 [] c = "t" -> 116
    [] c = "z" -> 122

Half == 65536

\* One turn of the loop of hashUrl on a 32-bit integer kept as the two
\* 16-bit halves << high, low >> of its two's complement:
\* hash = ((hash << 5) - hash) + char; hash = hash & hash.
HashStep(hash, char) ==
  LET low  == 31 * hash[2] + char
      high == 31 * hash[1] + low \div Half
  IN << high % Half, low % Half >>

\* Math.abs of the 32-bit integer, as the halves of the magnitude
\* (the high half is 32768 for -2^31).
AbsInt32(hash) ==
  IF hash[1] < Half \div 2 THEN hash
  ELSE << (Half - 1) - hash[1] + (IF hash[2] = 0 THEN 1 ELSE 0),
          (Half - hash[2]) % Half >>

Base36Char(d) ==
  IF d < 10 THEN DigitChar(d)
  ELSE << "a", "b", "c", "d", "e", "f", "g", "h", "i", "j", "k", "l", "m",
          "n", "o", "p", "q", "r", "s", "t", "u", "v", "w", "x", "y", "z" >>[d - 9]

\* Number.prototype.toString(36) of a magnitude given by its halves.
ToString36(mag) ==
  LET t    == (mag[1] % 36) * Half + mag[2]
      quot == (mag[1] \div 36) * Half + t \div 36
      RECURSIVE go(_)
      go(n) == IF n < 36 THEN << Base36Char(n) >>
               ELSE Append(go(n \div 36), Base36Char(n % 36))
  IN IF quot = 0 THEN << Base36Char(t % 36) >>
     ELSE Append(go(quot), Base36Char(t % 36))

hashUrl(url) ==
  LET RECURSIVE go(_, _)
      go(i, hash) == IF i > Len(url) THEN hash
                     ELSE go(i + 1, HashStep(hash, CharCode(url[i])))
  IN ToString36(AbsInt32(go(1, << 0, 0 >>)))

\* The keys of getCachedRoutes, getCachedStops, getCachedTrips and
\* getCachedDepartures.
KvKey(table, url, routeId, stopId) ==
  CASE table = "routes" -> << "gtfs:routes:" >> \o hashUrl(url)
    [] table = "stops" -> << "gtfs:stops:" >> \o hashUrl(url)
    [] table = "trips" -> << "gtfs:trips:" >> \o hashUrl(url)
    [] table = "departures" ->
         << "cache:departures:" >> \o routeId \o << ":" >> \o stopId


\* ------------------------------------------------------------ SpecKV

\* getFromKVOrParse called through getCachedRoutes, getCachedStops,
\* getCachedTrips and getCachedDepartures, one query after the other, with
\* the KV binding present or absent, while the feed behind a URL may change
\* and the entries of the store may expire.
MaxQueries == 2
MaxFeedVersion == 2

UrlOf(name) ==
  << "h", "t", "t", "p", "s", ":", "/", "/", "f", "/" >> \o name
    \o << ".", "z", "i", "p" >>

KvUrls == {UrlOf(<< "A", "a" >>), UrlOf(<< "B", "B" >>), UrlOf(<< "C" >>)}

KvTables == {"routes", "stops", "trips", "departures"}

\* parseFn(): the rows direct parsing yields for the table, from the
\* snapshot the archive cache now holds for the URL.
TableOf(table, url, version) ==
  << [h \in {K("table"), K("feed"), K("version")} |->
        CASE h = K("table") -> << table >>
          [] h = K("feed") -> url
          [] h = K("version") -> Numeral(version)] >>

\* JSON.parse(JSON.stringify(data)) on a table: a key whose value is
\* undefined is dropped, strings come back as they are.
JsonRoundTrip(data) ==
  [i \in 1..Len(data) |->
     [h \in {k \in DOMAIN data[i] : data[i][k] # Undefined} |-> data[i][h]]]

IdleKv ==
  [pc |-> "idle", table |-> "none", url |-> << >>, key |-> << >>,
   ttl |-> 0, get |-> "none", put |-> "none", data |-> << >>,
   direct |-> << >>, hitOf |-> << >>, result |-> << >>, error |-> "none",
   parses |-> 0]

KV_CACHE_TTL == 6 * 60 * 60

shortTTL == 5 * 60

KvInit ==
  /\ cache = InitCache
  /\ clock = StartClock
  /\ nextId = 1
  /\ req = [p \in Procs |-> IdleReq]
  /\ lastWrite = [id |-> 0, now |-> 0]
  /\ lastHit = NoZip
  /\ dep = IdleDep
  /\ \E kv \in {"present", "absent"} :
       run = [pc |-> "kv", kv |-> kv, store |-> << >>,
              version |-> [u \in KvUrls |-> 1], queries |-> 0, q |-> IdleKv]

\* A caller calls getCached<Table>(kv, ...): the key is built, and
\* getFromKVOrParse runs up to its first await, kv.get(key) when there is a
\* binding and parseFn() when there is none (lines 12-20).
KvCall(table, url) ==
  /\ run.pc = "kv"
  /\ run.q.pc = "idle"
  /\ run.queries < MaxQueries
  /\ run' = [run EXCEPT
               !.queries = @ + 1,
               !.q = [IdleKv EXCEPT
                        !.table = table, !.url = url,
                        !.key = KvKey(table, url, << "R1" >>, << "S1" >>),
                        !.ttl = IF table = "departures" THEN shortTTL ELSE KV_CACHE_TTL,
                        !.pc = IF run.kv = "absent" THEN "parsing" ELSE "getting"]]
  /\ UNCHANGED shared

\* A getFromKVOrParse that lets a failed kv.get escape.
KvGetFailsThrows ==
  run' = [run EXCEPT !.q = [@ EXCEPT !.get = "failed", !.pc = "failed",
                                     !.error = "KVError"]]

\* Lines 25-27: a rejected kv.get is caught and logged; parseFn() is next.
KvGetFails ==
  run' = [run EXCEPT !.q = [@ EXCEPT !.get = "failed", !.pc = "parsing"]]

\* A getFromKVOrParse that goes on to parseFn() after a hit.
KvGetAnswersThenParses ==
  IF run.q.key \in DOMAIN run.store
  THEN run' = [run EXCEPT
                 !.q = [@ EXCEPT !.get = "hit", !.pc = "parsing",
                                 !.result = run.store[run.q.key].value,
                                 !.hitOf = << run.store[run.q.key].table,
                                              run.store[run.q.key].url >>,
                                 !.direct = TableOf(run.q.table, run.q.url,
                                                    run.version[run.q.url])]]
  ELSE run' = [run EXCEPT !.q = [@ EXCEPT !.get = "miss", !.pc = "parsing"]]

\* Lines 20-24 and 29-31: the entry under the key is returned when there is
\* one, else parseFn() is next.
KvGetAnswers ==
  IF run.q.key \in DOMAIN run.store
  THEN run' = [run EXCEPT
                 !.q = [@ EXCEPT !.get = "hit", !.pc = "done",
                                 !.result = run.store[run.q.key].value,
                                 !.hitOf = << run.store[run.q.key].table,
                                              run.store[run.q.key].url >>,
                                 !.direct = TableOf(run.q.table, run.q.url,
                                                    run.version[run.q.url])]]
  ELSE run' = [run EXCEPT !.q = [@ EXCEPT !.get = "miss", !.pc = "parsing"]]

KvGet ==
  /\ run.pc = "kv"
  /\ run.q.pc = "getting"
  /\ \E ok \in BOOLEAN : IF ok THEN KvGetAnswers ELSE KvGetFails
  /\ UNCHANGED shared

\* Lines 15 and 31-34: parseFn() resolves or rejects; its rejection is the
\* caller's own error and escapes.  Without a binding the rows are returned
\* at once; with one, kv.put is next when the rows are truthy (an array is).
KvParse ==
  /\ run.pc = "kv"
  /\ run.q.pc = "parsing"
  /\ \E ok \in BOOLEAN :
       IF ok
       THEN LET data == TableOf(run.q.table, run.q.url, run.version[run.q.url])
            IN run' = [run EXCEPT
                         !.q = [@ EXCEPT !.data = data, !.direct = data,
                                         !.result = data, !.parses = @ + 1,
                                         !.pc = IF run.kv = "absent" THEN "done"
                                                ELSE "putting"]]
       ELSE run' = [run EXCEPT !.q = [@ EXCEPT !.pc = "failed", !.parses = @ + 1,
                                               !.error = "ParseError"]]
  /\ UNCHANGED shared

\* Lines 35-46: kv.put(key, JSON.stringify(data), {expirationTtl}) stores the
\* entry or rejects; a rejection is caught and logged, and data is returned.
KvPut ==
  /\ run.pc = "kv"
  /\ run.q.pc = "putting"
  /\ \E ok \in BOOLEAN :
       IF ok
       THEN run' = [run EXCEPT
                      !.store = (run.q.key :>
                                   [value |-> JsonRoundTrip(run.q.data),
                                    table |-> run.q.table, url |-> run.q.url,
                                    ttl |-> run.q.ttl]) @@ @,
                      !.q = [@ EXCEPT !.put = "stored", !.pc = "done"]]
       ELSE run' = [run EXCEPT !.q = [@ EXCEPT !.put = "failed", !.pc = "done"]]
  /\ UNCHANGED shared

\* The caller has its rows or its error.
KvReturn ==
  /\ run.pc = "kv"
  /\ run.q.pc \in {"done", "failed"}
  /\ run' = [run EXCEPT !.q = IdleKv]
  /\ UNCHANGED shared

\* The archive cache comes to hold a newer feed for the URL (a refresh after
\* its own TTL, or the first fetch of a new isolate): parseFn() parses it.
FeedChanges(url) ==
  /\ run.pc = "kv"
  /\ run.version[url] < MaxFeedVersion
  /\ run' = [run EXCEPT !.version[url] = @ + 1]
  /\ UNCHANGED shared

\* The expirationTtl of an entry has passed.
KvExpires(key) ==
  /\ run.pc = "kv"
  /\ key \in DOMAIN run.store
  /\ run' = [run EXCEPT
               !.store = [k \in DOMAIN run.store \ {key} |-> run.store[k]]]
  /\ UNCHANGED shared

KvNext ==
  \/ \E table \in KvTables, url \in KvUrls : KvCall(table, url)
  \/ KvGet
  \/ KvParse
  \/ KvPut
  \/ KvReturn
  \/ \E url \in KvUrls : FeedChanges(url)
  \/ \E key \in DOMAIN run.store : KvExpires(key)

SpecKV == KvInit /\ [][KvNext]_vars


C15_SameResultsWithoutKV ==
  run.pc = "kv"
    => /\ run.kv = "absent"
            => /\ run.q.get = "none"
               /\ run.q.put = "none"
               /\ run.store = << >>
       /\ run.q.pc = "done" => run.q.result = run.q.direct

\* C16.  Keys do not collide: an entry found under the key of a table and a
\* URL was stored for that table and that URL; two URLs never give one key
\* for a table, nor two tables one key for a URL.
C16_KeysDoNotCollide ==
  /\ run.pc = "kv" /\ run.q.get = "hit"
       => run.q.hitOf = << run.q.table, run.q.url >>
  /\ \A t1, t2 \in KvTables, u1, u2 \in KvUrls :
       KvKey(t1, u1, << "R1" >>, << "S1" >>) = KvKey(t2, u2, << "R1" >>, << "S1" >>)
         => t1 = t2 /\ u1 = u2


\* ------------------------------------------------------------ SpecApi

\* The handlers of index.js, one request after the other, against the
\* module-level cache, a feed source that may fail or serve any archive of
\* ApiBytes, and a clock that may pass the TTL.
MaxRequests == 3

\* URLSearchParams.get on a parameter that is not given.
Null == << "<null>" >>

\* !v for a value of searchParams.get: null or the empty string.
Falsy(v) == v = Null \/ v = << >>

ApiPaths == {"routes", "stops", "find-stop", "find-route", "departures"}

\* The archives of the feed source: "F" holds the four tables, "M" holds
\* trips.txt only, "X" is no archive.
ApiBytes == {"F", "M", "X"}

ArchiveThrows(bytes) == bytes = "X"

ApiStopTimes ==
  StopTimesText(StopTimesHeader,
                << [trip |-> "T1", stop |-> "S1", time |-> T08],
                   [trip |-> "T1", stop |-> "S1", time |-> T2530],
                   [trip |-> "T1", stop |-> "S2", time |-> T07] >>)

ArchiveFiles(bytes) ==
  LET trips == TripsHeader \o << "R1", ",", "T1", NL >>
  IN IF bytes = "M" THEN [f \in {"trips.txt"} |-> trips]
     ELSE [f \in {"routes.txt", "stops.txt", "trips.txt", "stop_times.txt"} |->
             CASE f = "routes.txt" ->
                    << "route_id", ",", "route_short_name", NL, "R1", ",", "1", NL >>
               [] f = "stops.txt" ->
                    << "stop_id", ",", "stop_name", NL, "S1", ",", "Plaza", NL >>
               [] f = "trips.txt" -> trips
               [] f = "stop_times.txt" -> ApiStopTimes]

\* The message of the Error a failed step throws.
FetchMessage(out) ==
  << "Error downloading GTFS data: " >> \o
    (IF out = "status" THEN << "Failed to download GTFS data: ", "5", "0", "3" >>
     ELSE << "fetch failed" >>)

ExtractionMessage == << "invalid zip data" >>

MissingEntryMessage(filename) == << "File ", filename, " not found in ZIP" >>

\* errorResponse(message) with its default status, as the catch of the
\* fetch handler answers.
CatchResponse500(message) ==
  [status |-> 500, body |-> [error |-> TRUE, message |-> message]]

\* The catch of every handler:
\* errorResponse(`Service unavailable: ${error.message}`, 503).
CatchResponse(message) ==
  [status |-> 503,
   body |-> [error |-> TRUE, message |-> << "Service unavailable: " >> \o message]]

\* The test of line 441 with `&&` for `||`.
MissingParamsBoth(routeId, stopId) == Falsy(routeId) /\ Falsy(stopId)

\* Line 441: !routeId || !stopId.
MissingParams(routeId, stopId) == Falsy(routeId) \/ Falsy(stopId)

\* The tables a handler reads, in the order of its parseCSVFromZip calls.
TablesOf(path, includeStops) ==
  CASE path = "routes" -> << "routes.txt" >>
    [] path = "stops" -> << "stops.txt" >>
    [] path = "find-stop" -> << "stops.txt" >>
    [] path = "find-route" ->
         IF includeStops
         THEN << "routes.txt", "trips.txt", "stop_times.txt", "stops.txt" >>
         ELSE << "routes.txt" >>
    [] path = "departures" -> << "trips.txt", "stop_times.txt" >>

\* A slice that stops one element early.
Slice0Short(s, end) ==
  LET e == IF IsNaN(end) THEN 0
           ELSE IF end - 1 > Len(s) THEN Len(s)
           ELSE IF end - 1 < 0 THEN 0 ELSE end - 1
  IN SubSeq(s, 1, e)

\* Array.prototype.slice(0, end).
Slice0(s, end) ==
  LET e == IF IsNaN(end) THEN 0
           ELSE IF end < 0 THEN (IF Len(s) + end < 0 THEN 0 ELSE Len(s) + end)
           ELSE IF end > Len(s) THEN Len(s) ELSE end
  IN SubSeq(s, 1, e)

\* depTime.toTimeString().split(' ')[0]
toTimeStringHead(t) ==
  IF IsNaN(t) THEN << "Invalid" >>
  ELSE LET wall == (t % MsPerDay) \div MsPerSecond
       IN TimeText(wall \div 3600, (wall % 3600) \div 60, wall % 60, TRUE)

\* Lines 459-463, as JSON.stringify writes the objects: a key whose value is
\* undefined is left out.
DepartureEntries(results, limit) ==
  LET shown == Slice0(results, limit)
  IN JsonRoundTrip(
       [k \in 1..Len(shown) |->
          [h \in {K("departure_time"), K("trip_id"), K("stop_sequence")} |->
             IF h = K("departure_time") THEN toTimeStringHead(shown[k].time)
             ELSE Field(shown[k].st, h)]])

\* Lines 449-464: the body of the 200 answer of handleDepartures.
DeparturesBody(routeId, stopId, limit, results) ==
  IF Len(results) = 0
  THEN [message |-> << "No upcoming departures found for route " >> \o routeId
                      \o << " at stop " >> \o stopId,
        departures |-> << >>]
  ELSE [route_id |-> routeId, stop_id |-> stopId,
        departures |-> DepartureEntries(results, limit)]


ApiRouteIds == {Null, << >>, << "R1" >>, << "R9" >>}
ApiStopIds == {Null, << >>, << "S1" >>, << "S9" >>}
ApiLimits == {Null, << "1" >>}

IdleApi ==
  [pc |-> "idle", path |-> "none", routeId |-> Null, stopId |-> Null,
   limit |-> Null, includeStops |-> FALSE, zip |-> NoZip, now |-> 0,
   files |-> << >>, trips |-> << >>, results |-> << >>, hit |-> "none",
   cause |-> << >>, status |-> 0, body |-> << >>]

ApiInit ==
  /\ cache = InitCache
  /\ clock = StartClock
  /\ nextId = 1
  /\ req = [p \in Procs |-> IdleReq]
  /\ lastWrite = [id |-> 0, now |-> 0]
  /\ lastHit = NoZip
  /\ dep = IdleDep
  /\ run = [pc |-> "api", requests |-> 0, h |-> IdleApi]

\* The handler returns the response; hit and cause record the error it
\* caught, if any.
Answer(h, response, hit, cause) ==
  [h EXCEPT !.pc = "done", !.status = response.status, !.body = response.body,
            !.hit = hit, !.cause = cause]

\* The fetch handler dispatches a request to its handler, which runs up to
\* its first await: handleDepartures answers 400 at once when route_id or
\* stop_id is missing (lines 437-443), every other run calls getCachedZip.
ApiRequest(path, routeId, stopId, limit, includeStops) ==
  /\ run.pc = "api"
  /\ run.h.pc = "idle"
  /\ run.requests < MaxRequests
  /\ LET h == [IdleApi EXCEPT !.path = path, !.routeId = routeId,
                              !.stopId = stopId, !.limit = limit,
                              !.includeStops = includeStops]
     IN run' = [run EXCEPT
                  !.requests = @ + 1,
                  !.h = IF path = "departures" /\ MissingParams(routeId, stopId)
                        THEN Answer(h, [status |-> 400,
                                        body |-> [error |-> TRUE,
                                                  message |->
                                                    << "route_id and stop_id are required" >>]],
                                    "none", << >>)
                        ELSE [h EXCEPT !.pc = "zip",
                                       !.files = TablesOf(path, includeStops)]]
  /\ UNCHANGED shared

\* getCachedZip(GTFS_URL) as the handler sees it: the held bytes on a hit;
\* on a miss the download, then lines 44-47, where unzipSync throws on a
\* body that is no archive after cache.zipData is assigned.  A thrown error
\* lands in the catch of the handler.
ApiGetZip ==
  /\ run.pc = "api"
  /\ run.h.pc = "zip"
  /\ IF CacheHit(clock)
     THEN /\ run' = [run EXCEPT !.h = [@ EXCEPT !.pc = "tables", !.now = clock,
                                                !.zip = cache.zipData]]
          /\ UNCHANGED << cache, nextId >>
     ELSE /\ nextId' = nextId + 1
          /\ \E out \in ApiBytes \cup FetchFailures :
               LET zipData == [id |-> nextId, bytes |-> out]
               IN IF out \in FetchFailures
                  THEN /\ run' = [run EXCEPT
                                    !.h = Answer(@, CatchResponse(FetchMessage(out)),
                                                 "FetchError", FetchMessage(out))]
                       /\ UNCHANGED cache
                  ELSE IF ArchiveThrows(out)
                  THEN /\ run' = [run EXCEPT
                                    !.h = Answer(@, CatchResponse(ExtractionMessage),
                                                 "ExtractionError", ExtractionMessage)]
                       /\ cache' = [cache EXCEPT !.zipData = zipData]
                  ELSE /\ run' = [run EXCEPT
                                    !.h = [@ EXCEPT !.pc = "tables", !.now = clock,
                                                    !.zip = zipData]]
                       /\ cache' = [zipData     |-> zipData,
                                    unzipped    |-> [src |-> zipData.id,
                                                     files |-> ArchiveFiles(out)],
                                    parsedFiles |-> << >>,
                                    timestamp   |-> clock]
  /\ UNCHANGED << clock, req, lastWrite, lastHit, dep >>

\* What the handler does with the rows of the table it has just read: the
\* next table, or its 200 answer.  The lists of the routes and stops
\* answers are left out of the body.
ApiContinue(h, filename, rows) ==
  IF h.path = "departures" /\ filename = "trips.txt"
  THEN IF TripIdsForRoute(rows, h.routeId) = {}
       THEN {Answer(h, [status |-> 200,
                        body |-> DeparturesBody(h.routeId, h.stopId, 0, << >>)],
                    "none", << >>)}
       ELSE {[h EXCEPT !.trips = rows, !.files = Tail(@)]}
  ELSE IF h.path = "departures"
  THEN {Answer([h EXCEPT !.results = sorted],
               [status |-> 200,
                   body |-> DeparturesBody(
                              h.routeId, h.stopId,
                              parseInt(IF Falsy(h.limit) THEN << "5" >> ELSE h.limit),
                              sorted)],
               "none", << >>) :
          sorted \in SortOutcomes(UpcomingOf(rows, h.now))}
  ELSE IF Len(h.files) > 1 THEN {[h EXCEPT !.files = Tail(@)]}
  ELSE {Answer(h, [status |-> 200, body |-> [count |-> Len(rows)]], "none", << >>)}

\* One parseCSVFromZip (or parseCSVFromZipFiltered) call of the handler and
\* what follows it up to the next await: the memoized table, or the error
\* of a missing entry, or the parse of the entry.
ApiReadTable ==
  /\ run.pc = "api"
  /\ run.h.pc = "tables"
  /\ LET h        == run.h
         filename == Head(h.files)
         filtered == h.path = "departures" /\ filename = "stop_times.txt"
     IN IF ~filtered /\ filename \in DOMAIN cache.parsedFiles
        THEN /\ \E h1 \in ApiContinue(h, filename, cache.parsedFiles[filename].rows) :
                  run' = [run EXCEPT !.h = h1]
             /\ UNCHANGED cache
        ELSE IF filename \notin DOMAIN cache.unzipped.files
        THEN /\ run' = [run EXCEPT
                          !.h = Answer(@, CatchResponse(MissingEntryMessage(filename)),
                                       "MissingEntryError",
                                       MissingEntryMessage(filename))]
             /\ UNCHANGED cache
        ELSE IF filtered
        THEN /\ \E h1 \in ApiContinue(
                            h, filename,
                            RelevantStopTimes(cache.unzipped.files[filename],
                                              TripIdsForRoute(h.trips, h.routeId),
                                              h.stopId)) :
                  run' = [run EXCEPT !.h = h1]
             /\ UNCHANGED cache
        ELSE LET table == ParsedTable(cache, filename)
             IN /\ \E h1 \in ApiContinue(h, filename, table.rows) :
                     run' = [run EXCEPT !.h = h1]
                /\ cache' = Memoize(cache, filename, table)
  /\ UNCHANGED << clock, nextId, req, lastWrite, lastHit, dep >>

\* The response is sent; the worker takes the next request.
ApiDone ==
  /\ run.pc = "api"
  /\ run.h.pc = "done"
  /\ run' = [run EXCEPT !.h = IdleApi]
  /\ UNCHANGED shared

ApiNext ==
  \/ \E path \in {"routes", "stops", "find-stop"} :
       ApiRequest(path, Null, Null, Null, FALSE)
  \/ \E includeStops \in BOOLEAN :
       ApiRequest("find-route", Null, Null, Null, includeStops)
  \/ \E routeId \in ApiRouteIds, stopId \in ApiStopIds, limit \in ApiLimits :
       ApiRequest("departures", routeId, stopId, limit, FALSE)
  \/ ApiGetZip
  \/ ApiReadTable
  \/ ApiDone
  \/ Tick

SpecApi == ApiInit /\ [][ApiNext]_vars


\* C17.  A departures request without route_id or stop_id, or with an empty
\* one, is answered 400 before anything is fetched or read, never 503,
\* whatever the cache holds and whatever the feed source would answer.
C17_MissingParamsAnswered400 ==
  (/\ run.pc = "api"
   /\ run.h.path = "departures"
   /\ (Falsy(run.h.routeId) \/ Falsy(run.h.stopId)))
    => /\ run.h.pc = "done"
       /\ run.h.status = 400
       /\ run.h.hit = "none"
       /\ run.h.zip = NoZip

\* A request with a route_id and no stop_id got its 400 while the cache
\* held no fresh snapshot.
C17_Witness ==
  /\ run.pc = "api"
  /\ run.h.path = "departures"
  /\ run.h.routeId = << "R1" >>
  /\ run.h.stopId = Null
  /\ run.h.status = 400
  /\ ~CacheHit(clock)

\* C18.  A handler that hits a failed download, a body that is no archive
\* or a table that is not in the archive answers 503 with the message
\* "Service unavailable: " followed by the message of the error.
C18_FeedErrorsAnswered503 ==
  (run.pc = "api" /\ run.h.hit # "none")
    => /\ run.h.pc = "done"
       /\ run.h.status = 503
       /\ run.h.body.message = << "Service unavailable: " >> \o run.h.cause
       /\ run.h.cause # << >>
       /\ run.h.hit = "FetchError" => run.h.cause \in {FetchMessage(o) : o \in FetchFailures}
       /\ run.h.hit = "ExtractionError" => run.h.cause = ExtractionMessage
       /\ run.h.hit = "MissingEntryError"
            => run.h.cause \in {MissingEntryMessage(f) : f \in {"routes.txt", "stops.txt",
                                                                "stop_times.txt"}}

\* A departures query found trips.txt and then no stop_times.txt.
C18_Witness ==
  /\ run.pc = "api"
  /\ run.h.path = "departures"
  /\ run.h.hit = "MissingEntryError"
  /\ run.h.cause = MissingEntryMessage("stop_times.txt")
  /\ run.h.status = 503

\* C19.  A 200 answer to a departures request has the keys route_id,
\* stop_id and departures, the first two with the values of the request, and
\* every entry of departures has departure_time, trip_id and stop_sequence;
\* also when there is no upcoming departure.
C19_DeparturesShape ==
  (/\ run.pc = "api"
   /\ run.h.path = "departures"
   /\ run.h.pc = "done"
   /\ run.h.status = 200)
    => /\ DOMAIN run.h.body = {"route_id", "stop_id", "departures"}
       /\ run.h.body.route_id = run.h.routeId
       /\ run.h.body.stop_id = run.h.stopId
       /\ \A k \in 1..Len(run.h.body.departures) :
            DOMAIN run.h.body.departures[k] =
              {K("departure_time"), K("trip_id"), K("stop_sequence")}


\* ------------------------------------------------------------ SpecFindStop

\* handleFindStop on a parsed stops table.  A name is a sequence of single
\* letters; a coordinate is a number of millionths of a degree; a distance
\* is a number of millimetres, and distance_meters a number of tenths of a
\* metre.
MaxStops == 2

Letters ==
  << "a", "b", "c", "d", "e", "f", "g", "h", "i", "j", "k", "l", "m",
     "n", "o", "p", "q", "r", "s", "t", "u", "v", "w", "x", "y", "z" >>

Capitals ==
  << "A", "B", "C", "D", "E", "F", "G", "H", "I", "J", "K", "L", "M",
     "N", "O", "P", "Q", "R", "S", "T", "U", "V", "W", "X", "Y", "Z" >>

\* The place of a letter in the alphabet, whatever its case.
LetterRank(c) ==
  CHOOSE i \in 1..26 : Letters[i] = c \/ Capitals[i] = c

IsCapital(c) == \E i \in 1..26 : Capitals[i] = c

\* String.prototype.toLowerCase().
toLowerCase(s) ==
  [i \in 1..Len(s) |-> IF IsCapital(s[i]) THEN Letters[LetterRank(s[i])] ELSE s[i]]

\* String.prototype.includes(sub).
includes(s, sub) ==
  \E i \in 0..(Len(s) - Len(sub)) : SubSeq(s, i + 1, i + Len(sub)) = sub

\* String.prototype.localeCompare on words of letters, as the root
\* collation orders them: by the letters whatever their case, a prefix
\* before the longer word; words with the same letters by case, the small
\* letter first at the first difference.  The sign of the result.
localeCompare(a, b) ==
  LET la == toLowerCase(a)
      lb == toLowerCase(b)
      RECURSIVE primary(_)
      primary(i) ==
        IF i > Len(la) /\ i > Len(lb) THEN 0
        ELSE IF i > Len(la) THEN -1
        ELSE IF i > Len(lb) THEN 1
        ELSE IF LetterRank(la[i]) < LetterRank(lb[i]) THEN -1
        ELSE IF LetterRank(la[i]) > LetterRank(lb[i]) THEN 1
        ELSE primary(i + 1)
      RECURSIVE tertiary(_)
      tertiary(i) ==
        IF i > Len(a) THEN 0
        ELSE IF IsCapital(a[i]) = IsCapital(b[i]) THEN tertiary(i + 1)
        ELSE IF IsCapital(b[i]) THEN -1 ELSE 1
  IN IF primary(1) # 0 THEN primary(1) ELSE tertiary(1)

Million == 1000000

\* parseFloat on an unsigned decimal numeral with at most six decimals, in
\* millionths; NaN for null, for the empty string and for a text that does
\* not start with a digit.
parseFloat(str) ==
  LET RECURSIVE whole(_, _)
      whole(i, acc) == IF i > Len(str) \/ str[i] \notin Digits THEN << i, acc >>
                       ELSE whole(i + 1, acc * 10 + DigitVal(str[i]))
      w == whole(1, 0)
      RECURSIVE frac(_, _, _)
      frac(i, unit, acc) ==
        IF i > Len(str) \/ str[i] \notin Digits \/ unit = 0 THEN acc
        ELSE frac(i + 1, unit \div 10, acc + DigitVal(str[i]) * unit)
  IN IF str = Null \/ str = << >> \/ str[1] \notin Digits THEN NaN
     ELSE w[2] * Million
            + (IF w[1] <= Len(str) /\ str[w[1]] = "."
               THEN frac(w[1] + 1, Million \div 10, 0) ELSE 0)

\* Millimetres of great circle per millionth of a degree, times 1000:
\* R * pi / 180 = 111194.9266 m per degree with R = 6371000.
MicroDegreeMillimetres == 111195

\* The distance of (0, 0) to (1, 1), in millimetres.
DiagonalDistance == 157249381

\* haversineDistance(lat1, lon1, lat2, lon2) on the coordinates of the
\* model: along a meridian it is R times the difference of the latitudes;
\* the one pair of points of the model that are not on one meridian is
\* (0, 0) and (1, 1).  NaN as soon as a coordinate is NaN.
haversineDistance(lat1, lon1, lat2, lon2) ==
  IF IsNaN(lat1) \/ IsNaN(lon1) \/ IsNaN(lat2) \/ IsNaN(lon2) THEN NaN
  ELSE IF lon1 = lon2
  THEN ((IF lat2 >= lat1 THEN lat2 - lat1 ELSE lat1 - lat2) * MicroDegreeMillimetres)
         \div 1000
  ELSE DiagonalDistance

\* Math.round(distance * 10) / 10, in tenths of a metre.
RoundToTenths(distance) ==
  IF IsNaN(distance) THEN NaN ELSE (distance + 50) \div 100


\* The stops a feed may list: three on the meridian of the query point at
\* 0 m, 499.93 m and 500.04 m, one at (1, 1), one without coordinates.
StopChoices ==
  {[name |-> << "p", "l", "a", "z", "a" >>, lat |-> << "0" >>, lon |-> << "0" >>],
   [name |-> << "A", "v", "e" >>,
    lat |-> << "0", ".", "0", "0", "4", "4", "9", "6" >>, lon |-> << "0" >>],
   [name |-> << "P", "l", "a", "y", "a" >>,
    lat |-> << "0", ".", "0", "0", "4", "4", "9", "7" >>, lon |-> << "0" >>],
   [name |-> << "z", "o", "o" >>, lat |-> << "1" >>, lon |-> << "1" >>],
   [name |-> << "b", "a", "r" >>, lat |-> << >>, lon |-> << >>]}

StopsHeader ==
  << "stop_id", ",", "stop_name", ",", "stop_lat", ",", "stop_lon", NL >>

\* The text of a stops.txt whose i-th stop has the stop_id i.
StopsText(stops) ==
  LET RECURSIVE go(_, _)
      go(i, acc) ==
        IF i > Len(stops) THEN acc
        ELSE go(i + 1, acc \o << DigitSym(i), "," >> \o stops[i].name \o << "," >>
                           \o stops[i].lat \o << "," >> \o stops[i].lon \o << NL >>)
  IN go(1, StopsHeader)

FsNames == {Null, << "p", "l", "a" >>}
FsCoordinates == {Null, << "0" >>}
FsRadii == {Null, << "1" >>}
FsLimits == {Null, << "1" >>, << "2" >>}

FsInit ==
  /\ cache = InitCache
  /\ clock = StartClock
  /\ nextId = 1
  /\ req = [p \in Procs |-> IdleReq]
  /\ lastWrite = [id |-> 0, now |-> 0]
  /\ lastHit = NoZip
  /\ dep = IdleDep
  /\ \E n \in 0..MaxStops :
       \E listed \in [1..n -> StopChoices], name \in FsNames, latStr \in FsCoordinates,
          lonStr \in FsCoordinates, radiusStr \in FsRadii, limitStr \in FsLimits :
         run = [pc |-> "fs-name", name |-> name,
                lat |-> parseFloat(latStr), lon |-> parseFloat(lonStr),
                radius |-> parseInt(IF Falsy(radiusStr) THEN << "5", "0", "0" >>
                                    ELSE radiusStr),
                limit |-> parseInt(IF Falsy(limitStr) THEN << "1", "0" >> ELSE limitStr),
                table |-> parseCSV(StopsText(listed)),
                stops |-> << >>, body |-> << >>]

\* s.stop_name || ''
NameOf(row) ==
  IF Field(row, K("stop_name")) = Undefined THEN << >> ELSE Field(row, K("stop_name"))

\* Lines 260-266: the stops whose name includes the search term, whatever
\* the case; every stop when no name is given.
FsFilterName ==
  /\ run.pc = "fs-name"
  /\ LET kept == {i \in 1..Len(run.table) :
                    Falsy(run.name)
                      \/ includes(toLowerCase(NameOf(run.table[i])), toLowerCase(run.name))}
         RECURSIVE go(_, _)
         go(i, acc) ==
           IF i > Len(run.table) THEN acc
           ELSE go(i + 1, IF i \in kept
                          THEN Append(acc, [row |-> run.table[i], distance_meters |-> NaN])
                          ELSE acc)
     IN run' = [run EXCEPT !.pc = "fs-order", !.stops = go(1, << >>)]
  /\ UNCHANGED shared

\* stops.sort((a, b) => a.distance_meters - b.distance_meters): stable.
SortByDistance(s) ==
  LET RECURSIVE ins(_, _, _)
      ins(acc, x, i) ==
        IF i > Len(acc) \/ acc[i].distance_meters > x.distance_meters
        THEN SubSeq(acc, 1, i - 1) \o << x >> \o SubSeq(acc, i, Len(acc))
        ELSE ins(acc, x, i + 1)
      RECURSIVE go(_, _)
      go(i, acc) == IF i > Len(s) THEN acc ELSE go(i + 1, ins(acc, s[i], 1))
  IN go(1, << >>)

\* stops.sort((a, b) => (a.stop_name || '').localeCompare(b.stop_name || '')).
SortByName(s) ==
  LET RECURSIVE ins(_, _, _)
      ins(acc, x, i) ==
        IF i > Len(acc) \/ localeCompare(NameOf(acc[i].row), NameOf(x.row)) > 0
        THEN SubSeq(acc, 1, i - 1) \o << x >> \o SubSeq(acc, i, Len(acc))
        ELSE ins(acc, x, i + 1)
      RECURSIVE go(_, _)
      go(i, acc) == IF i > Len(s) THEN acc ELSE go(i + 1, ins(acc, s[i], 1))
  IN go(1, << >>)

\* The stop with its rounded distance to the query point (lines 271-278).
WithDistance(stop, lat, lon) ==
  [stop EXCEPT !.distance_meters =
     RoundToTenths(haversineDistance(lat, lon,
                                     parseFloat(Field(stop.row, K("stop_lat"))),
                                     parseFloat(Field(stop.row, K("stop_lon")))))]

\* Lines 269-285: with both coordinates, every stop gets its rounded
\* distance, the stops with distance_meters <= radius are kept and sorted
\* by distance_meters.
FsByDistance ==
  /\ run.pc = "fs-order"
  /\ ~IsNaN(run.lat) /\ ~IsNaN(run.lon)
  /\ LET RECURSIVE go(_, _)
         go(i, acc) ==
           IF i > Len(run.stops) THEN acc
           ELSE LET s == WithDistance(run.stops[i], run.lat, run.lon)
                IN go(i + 1,
                      IF ~IsNaN(run.radius) /\ NumLe(s.distance_meters, run.radius * 10)
                      THEN Append(acc, s) ELSE acc)
     IN run' = [run EXCEPT !.pc = "fs-limit", !.stops = SortByDistance(go(1, << >>))]
  /\ UNCHANGED shared

\* Lines 286-288: without both coordinates the stops are sorted by name.
\* The sort is in place: when no name is given either, `stops` is still the
\* array parseCSVFromZip returned, and the table itself is reordered.
FsByName ==
  /\ run.pc = "fs-order"
  /\ IsNaN(run.lat) \/ IsNaN(run.lon)
  /\ LET sorted == SortByName(run.stops)
     IN run' = [run EXCEPT
                  !.pc = "fs-limit",
                  !.stops = sorted,
                  !.table = IF Falsy(run.name)
                            THEN [k \in 1..Len(sorted) |-> sorted[k].row] ELSE @]
  /\ UNCHANGED shared

\* Lines 291-315: the first `limit` stops, as the answer lists them.
FsRespond ==
  /\ run.pc = "fs-limit"
  /\ LET shown == Slice0(run.stops, run.limit)
         geo   == ~IsNaN(run.lat) /\ ~IsNaN(run.lon)
         info(s) ==
           IF geo
           THEN [stop_id |-> Field(s.row, K("stop_id")),
                 name |-> Field(s.row, K("stop_name")),
                 location |-> [lat |-> parseFloat(Field(s.row, K("stop_lat"))),
                               lon |-> parseFloat(Field(s.row, K("stop_lon")))],
                 distance_meters |-> s.distance_meters]
           ELSE [stop_id |-> Field(s.row, K("stop_id")),
                 name |-> Field(s.row, K("stop_name")),
                 location |-> [lat |-> parseFloat(Field(s.row, K("stop_lat"))),
                               lon |-> parseFloat(Field(s.row, K("stop_lon")))]]
     IN run' = [run EXCEPT
                  !.pc = "fs-done",
                  !.body = [count |-> Len(shown),
                            stops |-> [k \in 1..Len(shown) |-> info(shown[k])]]]
  /\ UNCHANGED shared

FsNext == FsFilterName \/ FsByDistance \/ FsByName \/ FsRespond

SpecFindStop == FsInit /\ [][FsNext]_vars


\* The stops of the table whose name matches the search term.
FsMatching ==
  {i \in 1..Len(run.table) :
     Falsy(run.name)
       \/ includes(toLowerCase(NameOf(run.table[i])), toLowerCase(run.name))}

\* The distance of the i-th stop of the table to the query point, in
\* millimetres.
FsDistance(i) ==
  haversineDistance(run.lat, run.lon,
                    parseFloat(Field(run.table[i], K("stop_lat"))),
                    parseFloat(Field(run.table[i], K("stop_lon"))))

\* The place in the table of the k-th stop of the answer.
FsPlace(k) ==
  CHOOSE i \in 1..Len(run.table) :
    Field(run.table[i], K("stop_id")) = run.body.stops[k].stop_id

FsMin(a, b) == IF a < b THEN a ELSE b

\* The answer lists, cut to limit, the stops of `expected`: nearest first
\* by the distance `dist` when the point is given, else by name.
FsAnswerIs(expected, geo, dist) ==
  LET n      == Len(run.body.stops)
      listed == {FsPlace(k) : k \in 1..n}
  IN /\ n = FsMin(run.limit, Cardinality(expected))
     /\ run.body.count = n
     /\ listed \subseteq expected
     /\ Cardinality(listed) = n
     /\ geo => /\ \A k \in 1..n : \A l \in (k + 1)..n :
                    dist[FsPlace(k)] <= dist[FsPlace(l)]
               /\ \A k \in 1..n : \A i \in expected \ listed :
                    dist[FsPlace(k)] <= dist[i]
     /\ ~geo => /\ \A k \in 1..n : \A l \in (k + 1)..n :
                     localeCompare(run.body.stops[k].name,
                                   run.body.stops[l].name) <= 0
                /\ \A k \in 1..n : \A i \in expected \ listed :
                     localeCompare(run.body.stops[k].name,
                                   NameOf(run.table[i])) <= 0
     /\ ( /\ geo /\ run.lat = 0 /\ run.lon = 0 /\ run.radius = 1
          /\ Falsy(run.name)
          /\ Len(run.table) = 2
          /\ FsDistance(1) = 0
          /\ FsDistance(2) = DiagonalDistance )
          => /\ n = 1
             /\ run.body.stops[1].stop_id = << "1" >>

FsGeo == ~IsNaN(run.lat) /\ ~IsNaN(run.lon)

\* C20.  With lat and lon the answer of handleFindStop lists the stops that
\* match the name and lie within radius (500 by default) of the point,
\* nearest first, cut to limit (10 by default); without them the stops that
\* match the name, by name, cut to limit.  With lat 0, lon 0 and radius 1
\* over stops at (0, 0) and (1, 1) only the stop at (0, 0) is listed.
C20_FindStopResult ==
  run.pc = "fs-done"
    => FsAnswerIs(IF FsGeo
                  THEN {i \in FsMatching : NumLe(FsDistance(i), run.radius * 1000)}
                  ELSE FsMatching,
                  FsGeo,
                  [i \in 1..Len(run.table) |-> FsDistance(i)])

\* The same answer, with the distance of a stop taken as the answer gives
\* it in distance_meters, rounded to a tenth of a metre: what the radius
\* filter of handleFindStop tests.
FindStopResultRounded ==
  run.pc = "fs-done"
    => FsAnswerIs(IF FsGeo
                  THEN {i \in FsMatching :
                          NumLe(RoundToTenths(FsDistance(i)), run.radius * 10)}
                  ELSE FsMatching,
                  FsGeo,
                  [i \in 1..Len(run.table) |-> RoundToTenths(FsDistance(i))])

\* Within the default radius of 500 the answer lists the stop at 499.93 m
\* and then the stop at 500.04 m, given as 500.
FindStopBoundaryListed ==
  /\ run.pc = "fs-done"
  /\ FsGeo
  /\ run.radius = 500
  /\ Len(run.table) = 2
  /\ Len(run.body.stops) = 2
  /\ run.body.stops[1].stop_id = << "2" >>
  /\ run.body.stops[1].distance_meters = 4999
  /\ run.body.stops[2].stop_id = << "1" >>
  /\ run.body.stops[2].distance_meters = 5000


\* ------------------------------------------------------------ memoization

\* C26.  cache.parsedFiles never holds an entry for stop_times.txt, whether
\* the table was parsed whole (find-route) or filtered (departures), and a
\* parse of routes.txt, stops.txt or trips.txt leaves the parsed table in
\* cache.parsedFiles.
C26_StopTimesNeverMemoized ==
  /\ []("stop_times.txt" \notin DOMAIN cache.parsedFiles)
  /\ [][(/\ run.h.pc = "tables"
         /\ run' # run
         /\ run'.h.hit = "none")
          => LET f == Head(run.h.files)
             IN IF f = "stop_times.txt"
                THEN cache'.parsedFiles = cache.parsedFiles
                ELSE /\ f \in DOMAIN cache'.parsedFiles
                     /\ cache'.parsedFiles[f].rows = parseCSV(cache.unzipped.files[f])
                     /\ \A g \in DOMAIN cache.parsedFiles :
                          g \in DOMAIN cache'.parsedFiles]_vars

\* A find-route request has parsed the whole stop_times table and goes on
\* to the stops; routes and trips are memoized, stop_times is not.
C26_Witness ==
  /\ run.pc = "api"
  /\ run.h.path = "find-route"
  /\ run.h.files = << "stops.txt" >>
  /\ DOMAIN cache.parsedFiles = {"routes.txt", "trips.txt"}


\* ------------------------------------------------------------ the slot

\* C28.  cache.timestamp never decreases: every step leaves it as it is or
\* writes a value that is not smaller.
C28_TimestampNeverDecreases ==
  [][cache'.timestamp >= cache.timestamp]_vars

\* C29.  The steps of a getCachedZip call whose download fails, from the
\* call to the rejection of the download, leave the cache as it is:
\* zipData, unzipped, parsedFiles and timestamp.
C29_FailedDownloadLeavesCache ==
  [][\A p \in Procs :
       (/\ req[p].pc \in {"idle", "fetching"}
        /\ req'[p].pc \in {"fetching", "failed"}
        /\ req'[p] # req[p]
        /\ req'[p].fetched # "ok")
         => cache' = cache]_vars

\* The download of a refresh has failed while the slot holds an expired
\* snapshot with its trips table memoized.
C29_Witness ==
  \E p \in Procs :
    /\ req[p].pc = "failed"
    /\ req[p].fetched = "failed"
    /\ req[p].found = "expired"
    /\ cache.zipData # NoZip
    /\ cache.unzipped # NoUnzipped
    /\ "trips.txt" \in DOMAIN cache.parsedFiles
    /\ cache.timestamp = StartClock


\* ------------------------------------------------------------ KV layer

MaxCalls == 3

ZipUrls == {UrlOf(<< "A" >>), UrlOf(<< "B" >>)}

IdleZip ==
  [pc |-> "idle", url |-> << >>, now |-> 0, found |-> "none",
   zipData |-> NoZip, zip |-> NoZip, error |-> "none"]

ZipInit ==
  /\ cache = InitCache
  /\ clock = StartClock
  /\ nextId = 1
  /\ req = [p \in Procs |-> IdleReq]
  /\ lastWrite = [id |-> 0, now |-> 0]
  /\ lastHit = NoZip
  /\ dep = IdleDep
  /\ run = [pc |-> "zip", calls |-> 0, c |-> IdleZip]

\* Lines 35-40: the hit test, which does not look at url, and on a miss
\* fetch(url).
ZipCall(url) ==
  /\ run.pc = "zip"
  /\ run.c.pc = "idle"
  /\ run.calls < MaxCalls
  /\ LET c0 == [IdleZip EXCEPT !.url = url, !.now = clock, !.found = Found(clock)]
     IN run' = [run EXCEPT
                  !.calls = @ + 1,
                  !.c = IF CacheHit(clock)
                        THEN [c0 EXCEPT !.pc = "returned", !.zip = cache.zipData]
                        ELSE [c0 EXCEPT !.pc = "fetching"]]
  /\ UNCHANGED shared

\* downloadGTFSZip(url), lines 18-29: the error of a failed download, or
\* the body the source serves for url.
ZipFetchResponds ==
  /\ run.pc = "zip"
  /\ run.c.pc = "fetching"
  /\ \E out \in AllBytes \cup FetchFailures :
       IF out \in FetchFailures
       THEN /\ run' = [run EXCEPT !.c = [@ EXCEPT !.pc = "failed",
                                                  !.error = "FetchError"]]
            /\ UNCHANGED nextId
       ELSE /\ run' = [run EXCEPT
                         !.c = [@ EXCEPT !.pc = "importing",
                                         !.zipData = [id |-> nextId, bytes |-> out,
                                                      from |-> run.c.url]]]
            /\ nextId' = nextId + 1
  /\ UNCHANGED << cache, clock, req, lastWrite, lastHit, dep >>

\* Lines 44-49.
ZipWriteSlot ==
  /\ run.pc = "zip"
  /\ run.c.pc = "importing"
  /\ LET zipData == run.c.zipData
     IN IF unzipSyncThrows(zipData.bytes)
        THEN /\ cache' = [cache EXCEPT !.zipData = zipData]
             /\ run' = [run EXCEPT !.c = [@ EXCEPT !.pc = "failed",
                                                   !.error = "ExtractionError"]]
        ELSE /\ cache' = [zipData     |-> zipData,
                          unzipped    |-> [src |-> zipData.id,
                                           files |-> unzipSync(zipData.bytes)],
                          parsedFiles |-> << >>,
                          timestamp   |-> run.c.now]
             /\ run' = [run EXCEPT !.c = [@ EXCEPT !.pc = "returned",
                                                   !.zip = zipData]]
  /\ UNCHANGED << clock, nextId, req, lastWrite, lastHit, dep >>

\* The caller has the bytes or the error.
ZipEnds ==
  /\ run.pc = "zip"
  /\ run.c.pc \in {"returned", "failed"}
  /\ run' = [run EXCEPT !.c = IdleZip]
  /\ UNCHANGED shared

ZipNext ==
  \/ \E url \in ZipUrls : ZipCall(url)
  \/ ZipFetchResponds
  \/ ZipWriteSlot
  \/ ZipEnds
  \/ Tick

SpecZip == ZipInit /\ [][ZipNext]_vars

\* C30.  The bytes getCachedZip(url) returns were downloaded from url.
C30_SnapshotOfTheUrlAsked ==
  (run.pc = "zip" /\ run.c.pc = "returned") => run.c.zip.from = run.c.url


\* ------------------------------------------------------------ departures

\* No row of the trips table of the held snapshot has the route of the
\* request.
NoTripOfRoute ==
  /\ cache.unzipped # NoUnzipped
  /\ "trips.txt" \in DOMAIN cache.unzipped.files
  /\ LET trips == parseCSV(cache.unzipped.files["trips.txt"])
     IN \A i \in 1..Len(trips) : Field(trips[i], K("route_id")) # run.h.routeId

\* C23.  A departures request for a route without a row in the trips table
\* is answered 200 with an empty departures list and no error, whether or
\* not the archive holds a stop_times table.
C23_NoTripsGivesEmpty ==
  (/\ run.pc = "api"
   /\ run.h.path = "departures"
   /\ run.h.pc = "done"
   /\ run.h.zip # NoZip
   /\ NoTripOfRoute)
    => /\ run.h.status = 200
       /\ run.h.hit = "none"
       /\ run.h.body.departures = << >>

\* A request for route R9 got its empty answer from an archive that holds
\* trips.txt and no stop_times.txt.
C23_Witness ==
  /\ run.pc = "api"
  /\ run.h.path = "departures"
  /\ run.h.routeId = << "R9" >>
  /\ run.h.stopId = << "S1" >>
  /\ run.h.pc = "done"
  /\ NoTripOfRoute
  /\ "stop_times.txt" \notin DOMAIN cache.unzipped.files
  /\ run.h.status = 200
  /\ run.h.body.departures = << >>


\* The limit of a departures request: parseInt(limit || '5').
LimitOf(h) == parseInt(IF Falsy(h.limit) THEN << "5" >> ELSE h.limit)

C25_DefaultLimit ==
  /\ run.pc = "api"
  /\ run.h.path = "departures"
  /\ run.h.pc = "done"
  /\ run.h.limit = Null
  /\ Len(run.h.results) = 2
  /\ Len(run.h.body.departures) = 2


\* ------------------------------------------------------------ tables

\* The places of the non-empty lines of a text, in source order.
NonEmptyPlaces(text) ==
  LET lines == Split(text, NL)
      RECURSIVE go(_, _)
      go(i, acc) ==
        IF i > Len(lines) THEN acc
        ELSE go(i + 1, IF Trim(lines[i]) # << >> THEN Append(acc, i) ELSE acc)
  IN go(1, << >>)

\* rows is the table of text: the first non-empty line is the header, every
\* later non-empty line gives one row, in source order, whose keys are the
\* column names of the header, each with the trimmed value at its place or
\* the empty string when the line has no value there.
IsTableOf(rows, text) ==
  LET lines  == Split(text, NL)
      places == NonEmptyPlaces(text)
  IN IF Len(places) = 0 THEN rows = << >>
     ELSE LET header == SplitFields(lines[places[1]])
          IN /\ Len(rows) = Len(places) - 1
             /\ \A k \in 1..Len(rows) :
                  LET values == SplitFields(lines[places[k + 1]])
                  IN /\ DOMAIN rows[k] = {header[j] : j \in 1..Len(header)}
                     /\ \A j \in 1..Len(header) :
                          rows[k][header[j]] =
                            IF j <= Len(values) THEN values[j] ELSE << >>

\* C24.  parseCSV(text), and parseCSVFiltered(text, pred) with a predicate
\* that accepts every row, yield the table of text: header from the first
\* non-empty line, one row per later non-empty line in source order, every
\* column name a key of every row, with its trimmed value or the empty
\* string.
C24_ParseTable ==
  /\ (run.pc = "csv" /\ run.full) => IsTableOf(run.rows, run.text)
  /\ (run.pc = "csv" /\ run.filter /\ run.filterFn.accept = CsvRowUniverse(run.text))
       => IsTableOf(run.filtered, run.text)


\* ------------------------------------------------------------ SpecQueries

\* The handlers of index.js that list routes and stops, one request after
\* the other against one snapshot.  parseCSVFromZip hands every handler the
\* very array it memoized (lines 57-59 and 78), so what a handler does to
\* the array in place is seen by the handlers after it.
MaxRoutes == 2
MaxServed == 2

\* v || ''
OrEmpty(v) == IF v = Undefined THEN << >> ELSE v

\* array.filter: the elements at the places of `places`, in order.
KeepPlaces(s, places) ==
  LET RECURSIVE go(_, _)
      go(i, acc) ==
        IF i > Len(s) THEN acc
        ELSE go(i + 1, IF i \in places THEN Append(acc, s[i]) ELSE acc)
  IN go(1, << >>)

IsNumeral(w) == w # << >> /\ \A i \in 1..Len(w) : w[i] \in Digits

\* localeCompare on the route names of the model, which are empty, numerals
\* or words of letters: the empty string first, then numerals, then words.
WordCompare(a, b) ==
  IF a = b THEN 0
  ELSE IF a = << >> THEN -1
  ELSE IF b = << >> THEN 1
  ELSE IF IsNumeral(a) /\ ~IsNumeral(b) THEN -1
  ELSE IF ~IsNumeral(a) /\ IsNumeral(b) THEN 1
  ELSE IF IsNumeral(a) /\ IsNumeral(b)
  THEN (IF parseInt(a) < parseInt(b) THEN -1 ELSE 1)
  ELSE localeCompare(a, b)

\* The comparator of lines 189-196 and 355-362: by the number in
\* route_short_name when both have one, else by localeCompare.
RouteCompare(a, b) ==
  LET aNum == parseInt(Field(a, K("route_short_name")))
      bNum == parseInt(Field(b, K("route_short_name")))
  IN IF ~IsNaN(aNum) /\ ~IsNaN(bNum) THEN aNum - bNum
     ELSE WordCompare(OrEmpty(Field(a, K("route_short_name"))),
                      OrEmpty(Field(b, K("route_short_name"))))

\* routes.sort(comparator): stable.
SortRoutes(s) ==
  LET RECURSIVE ins(_, _, _)
      ins(acc, x, i) ==
        IF i > Len(acc) \/ RouteCompare(acc[i], x) > 0
        THEN SubSeq(acc, 1, i - 1) \o << x >> \o SubSeq(acc, i, Len(acc))
        ELSE ins(acc, x, i + 1)
      RECURSIVE go(_, _)
      go(i, acc) == IF i > Len(s) THEN acc ELSE go(i + 1, ins(acc, s[i], 1))
  IN go(1, << >>)

\* The lower-cased column of a row includes the lower-cased term.
ColumnIncludes(row, column, term) ==
  includes(toLowerCase(OrEmpty(Field(row, K(column)))), toLowerCase(term))

\* The routes of an answer, as lines 201-208 and 368-375 list them.
RouteList(routes) ==
  [k \in 1..Len(routes) |->
     [route_id |-> OrEmpty(Field(routes[k], K("route_id"))),
      route_short_name |-> OrEmpty(Field(routes[k], K("route_short_name")))]]

\* handleRoutes, lines 173-209, on the memoized tables t: the body of the
\* answer and the tables as the handler leaves them.  With a q, filter
\* makes a new array and the sort is on that; without one the sort is on
\* the memoized array itself.
handleRoutes(q, t) ==
  LET kept   == IF Falsy(q) THEN t.routes
                ELSE KeepPlaces(t.routes,
                                {i \in 1..Len(t.routes) :
                                   \/ ColumnIncludes(t.routes[i], "route_id", q)
                                   \/ ColumnIncludes(t.routes[i], "route_short_name", q)
                                   \/ ColumnIncludes(t.routes[i], "route_long_name", q)})
      sorted == SortRoutes(kept)
  IN [body   |-> [count |-> Len(sorted), routes |-> RouteList(sorted)],
      tables |-> IF Falsy(q) THEN [t EXCEPT !.routes = sorted] ELSE t]

\* handleStops, lines 219-240: no sort.
handleStops(q, t) ==
  LET kept == IF Falsy(q) THEN t.stops
              ELSE KeepPlaces(t.stops,
                              {i \in 1..Len(t.stops) :
                                 ColumnIncludes(t.stops[i], "stop_name", q)})
  IN [body   |-> [count |-> Len(kept),
                  stops |-> [k \in 1..Len(kept) |->
                               [stop_id |-> Field(kept[k], K("stop_id")),
                                name |-> Field(kept[k], K("stop_name"))]]],
      tables |-> t]

\* handleFindStop, lines 251-316, with the default radius and limit.  The
\* sort by name is in place: without a name it is on the memoized array.
handleFindStop(name, latStr, lonStr, t) ==
  LET lat    == parseFloat(latStr)
      lon    == parseFloat(lonStr)
      geo    == ~IsNaN(lat) /\ ~IsNaN(lon)
      kept   == IF Falsy(name) THEN t.stops
                ELSE KeepPlaces(t.stops,
                                {i \in 1..Len(t.stops) :
                                   ColumnIncludes(t.stops[i], "stop_name", name)})
      stops0 == [k \in 1..Len(kept) |-> [row |-> kept[k], distance_meters |-> NaN]]
      near   == [k \in 1..Len(kept) |-> WithDistance(stops0[k], lat, lon)]
      within == KeepPlaces(near, {k \in 1..Len(near) :
                                    NumLe(near[k].distance_meters, 500 * 10)})
      sorted == IF geo THEN SortByDistance(within) ELSE SortByName(stops0)
      shown  == Slice0(sorted, 10)
  IN [body   |-> [count |-> Len(shown),
                  stops |-> [k \in 1..Len(shown) |->
                               [stop_id |-> Field(shown[k].row, K("stop_id")),
                                name |-> Field(shown[k].row, K("stop_name")),
                                distance_meters |-> shown[k].distance_meters]]],
      tables |-> IF ~geo /\ Falsy(name)
                 THEN [t EXCEPT !.stops = [k \in 1..Len(sorted) |-> sorted[k].row]]
                 ELSE t]

\* handleFindRoute, lines 327-427, without include_stops and with the
\* default limit.  The sort is in place: without number and name it is on
\* the memoized array.
handleFindRoute(number, name, t) ==
  LET byNumber == IF Falsy(number) THEN t.routes
                  ELSE KeepPlaces(t.routes,
                                  {i \in 1..Len(t.routes) :
                                     \/ ColumnIncludes(t.routes[i], "route_id", number)
                                     \/ ColumnIncludes(t.routes[i], "route_short_name",
                                                       number)})
      byName   == IF Falsy(name) THEN byNumber
                  ELSE KeepPlaces(byNumber,
                                  {i \in 1..Len(byNumber) :
                                     ColumnIncludes(byNumber[i], "route_long_name", name)})
      sorted   == SortRoutes(byName)
      shown    == Slice0(sorted, 10)
  IN [body   |-> [count |-> Len(shown), routes |-> RouteList(shown)],
      tables |-> IF Falsy(number) /\ Falsy(name) THEN [t EXCEPT !.routes = sorted]
                 ELSE t]


\* The routes a feed may list: route_id and route_short_name.
RouteChoices ==
  {[id |-> << "x" >>, short |-> << "1", "0" >>],
   [id |-> << "y" >>, short |-> << "2" >>],
   [id |-> << "z" >>, short |-> << "N" >>]}

RoutesText(routes) ==
  LET RECURSIVE go(_, _)
      go(i, acc) ==
        IF i > Len(routes) THEN acc
        ELSE go(i + 1, acc \o routes[i].id \o << "," >> \o routes[i].short \o << NL >>)
  IN go(1, << "route_id", ",", "route_short_name", NL >>)

\* handleDepartures for route R1 at stop S1 with the default limit: the
\* trips table is read and filtered into a new set, nothing is sorted in
\* place.
handleDeparturesR1S1(now, t) ==
  LET relevant == RelevantStopTimes(FeedA["stop_times.txt"],
                                    TripIdsForRoute(t.trips, QueryRoute), QueryStop)
  IN [body   |-> DeparturesBody(QueryRoute, QueryStop, 5,
                                StableSort(UpcomingOf(relevant, now))),
      tables |-> t]

\* The request the fetch handler dispatches, on the memoized tables t.
Handle(query, now, t) ==
  CASE query.path = "routes" -> handleRoutes(query.q, t)
    [] query.path = "stops" -> handleStops(query.q, t)
    [] query.path = "find-stop" ->
         handleFindStop(query.name, query.lat, query.lon, t)
    [] query.path = "find-route" -> handleFindRoute(query.number, query.name, t)
    [] query.path = "departures" -> handleDeparturesR1S1(now, t)

NoQuery == [path |-> "none"]

QueriesInit ==
  /\ cache = InitCache
  /\ clock = StartClock
  /\ nextId = 1
  /\ req = [p \in Procs |-> IdleReq]
  /\ lastWrite = [id |-> 0, now |-> 0]
  /\ lastHit = NoZip
  /\ dep = IdleDep
  /\ \E n \in 0..MaxRoutes, m \in 0..MaxStops :
       \E routes \in [1..n -> RouteChoices], stops \in [1..m -> StopChoices] :
         LET source == [routes |-> parseCSV(RoutesText(routes)),
                        stops  |-> parseCSV(StopsText(stops)),
                        trips  |-> parseCSV(FeedA["trips.txt"])]
         IN run = [pc |-> "queries", served |-> 0, source |-> source,
                   memo |-> source, query |-> NoQuery, body |-> << >>]

\* One request from its dispatch to its answer, on the tables the requests
\* before it left memoized.
Serve(query) ==
  /\ run.pc = "queries"
  /\ run.served < MaxServed
  /\ LET r == Handle(query, clock, run.memo)
     IN run' = [run EXCEPT !.served = @ + 1, !.memo = r.tables,
                           !.query = query, !.body = r.body]
  /\ UNCHANGED shared

QueriesNext ==
  \/ \E q \in {Null, << "x" >>} : Serve([path |-> "routes", q |-> q])
  \/ \E q \in FsNames : Serve([path |-> "stops", q |-> q])
  \/ \E name \in FsNames, at \in FsCoordinates :
       Serve([path |-> "find-stop", name |-> name, lat |-> at, lon |-> at])
  \/ \E number \in {Null, << "1" >>} :
       Serve([path |-> "find-route", number |-> number, name |-> Null])
  \/ Serve([path |-> "departures"])

SpecQueries == QueriesInit /\ [][QueriesNext]_vars

\* C22.  Whatever requests were served from the snapshot, the memoized
\* routes, stops and trips tables are the rows of the source files in their
\* order, and the answer to a request is the answer the same request gets
\* on the tables as first parsed.
C22_QueriesReadOnly ==
  run.pc = "queries"
    => /\ run.memo = run.source
       /\ run.served > 0
            => run.body = Handle(run.query, clock, run.source).body


\* ------------------------------------------------------------ SpecFindRoute

\* handleFindRoute on the routes R1 and R2, for every trips table of at
\* most MaxTrips rows and every stop_times table of at most MaxStopTimes
\* rows; stops.txt lists the stops S1 and S2, not S9.
MaxTrips == 2
MaxStopTimes == 2

FrRoutesText ==
  << "route_id", ",", "route_short_name", NL,
     "R2", ",", "2", NL, "R1", ",", "1", NL >>

FrStopsText ==
  << "stop_id", ",", "stop_name", NL, "S1", ",", "Plaza", NL, "S2", ",", "Mercat", NL >>

TripChoices ==
  {<< "R1", ",", "T1", NL >>, << "R1", ",", "T2", NL >>, << "R2", ",", "T3", NL >>}

StopTimeChoices ==
  {<< "T1", ",", "S1", ",", "1", "0", NL >>,
   << "T1", ",", "S2", ",", "9", NL >>,
   << "T1", ",", "S9", ",", "2", NL >>,
   << "T2", ",", "S1", ",", "1", NL >>}

\* The lines of a table after its header.
TextOf(header, lines) ==
  LET RECURSIVE go(_, _)
      go(i, acc) == IF i > Len(lines) THEN acc ELSE go(i + 1, acc \o lines[i])
  IN go(1, header)

FrInit ==
  /\ cache = InitCache
  /\ clock = StartClock
  /\ nextId = 1
  /\ req = [p \in Procs |-> IdleReq]
  /\ lastWrite = [id |-> 0, now |-> 0]
  /\ lastHit = NoZip
  /\ dep = IdleDep
  /\ \E n \in 0..MaxTrips, m \in 0..MaxStopTimes, includeStops \in BOOLEAN :
       \E trips \in [1..n -> TripChoices], stopTimes \in [1..m -> StopTimeChoices] :
         run = [pc |-> "fr-routes", includeStops |-> includeStops,
                routes |-> parseCSV(FrRoutesText),
                trips |-> parseCSV(TextOf(TripsHeader, trips)),
                stopTimes |-> parseCSV(TextOf(<< "trip_id", ",", "stop_id", ",",
                                                 "stop_sequence", NL >>, stopTimes)),
                stops |-> parseCSV(FrStopsText),
                pending |-> << >>, resultRoutes |-> << >>, body |-> << >>]

\* parseInt(st.stop_sequence || 0)
SequenceOf(st) ==
  LET v == Field(st, K("stop_sequence"))
  IN parseInt(IF v = Undefined \/ v = << >> THEN << "0" >> ELSE v)

\* tripStops.sort((a, b) => parseInt(a.stop_sequence || 0) -
\* parseInt(b.stop_sequence || 0)): stable.
SortBySequence(s) ==
  LET RECURSIVE ins(_, _, _)
      ins(acc, x, i) ==
        IF i > Len(acc) \/ SequenceOf(acc[i]) > SequenceOf(x)
        THEN SubSeq(acc, 1, i - 1) \o << x >> \o SubSeq(acc, i, Len(acc))
        ELSE ins(acc, x, i + 1)
      RECURSIVE go(_, _)
      go(i, acc) == IF i > Len(s) THEN acc ELSE go(i + 1, ins(acc, s[i], 1))
  IN go(1, << >>)

\* The trip whose stops are listed, taken as the last trip of the route.
LastTripOf(routeTrips) == Field(routeTrips[Len(routeTrips)], K("trip_id"))

\* routeTrips[0].trip_id
FirstTripOf(routeTrips) == Field(routeTrips[1], K("trip_id"))

\* stopsDict[st.stop_id]: the last row of stops.txt with the stop_id, or
\* undefined.
StopOf(stops, stopId) ==
  LET at == {i \in 1..Len(stops) : Field(stops[i], K("stop_id")) = stopId}
  IN IF at = {} THEN Undefined
     ELSE stops[CHOOSE i \in at : \A j \in at : j <= i]

\* One entry of routeInfo.stops (lines 402-408).
StopEntry(st, stops) ==
  [stop_sequence |-> SequenceOf(st),
   stop_id |-> OrEmpty(Field(st, K("stop_id"))),
   stop_name |-> IF StopOf(stops, Field(st, K("stop_id"))) = Undefined THEN << >>
                 ELSE OrEmpty(Field(StopOf(stops, Field(st, K("stop_id"))),
                                    K("stop_name")))]

\* Lines 377-413: the stops of route r, through the first of its trips.
RouteStopsOf(r, trips, stopTimes, stops) ==
  LET routeTrips == KeepPlaces(trips, {i \in 1..Len(trips) :
                                         Field(trips[i], K("route_id"))
                                           = Field(r, K("route_id"))})
  IN IF Len(routeTrips) > 0
     THEN LET tripId    == FirstTripOf(routeTrips)
              tripStops == SortBySequence(
                             KeepPlaces(stopTimes,
                                        {i \in 1..Len(stopTimes) :
                                           Field(stopTimes[i], K("trip_id")) = tripId}))
              known     == KeepPlaces(tripStops,
                                      {i \in 1..Len(tripStops) :
                                         StopOf(stops, Field(tripStops[i], K("stop_id")))
                                           # Undefined})
          IN [k \in 1..Len(known) |-> StopEntry(known[k], stops)]
     ELSE << >>

\* Lines 327-363: the routes, sorted and cut to the default limit.
FrRoutes ==
  /\ run.pc = "fr-routes"
  /\ run' = [run EXCEPT !.pc = "fr-route",
                        !.pending = Slice0(SortRoutes(run.routes), 10)]
  /\ UNCHANGED shared

\* Lines 365-416: one turn of the loop over the routes.
FrRoute ==
  /\ run.pc = "fr-route"
  /\ Len(run.pending) > 0
  /\ LET r     == Head(run.pending)
         id    == OrEmpty(Field(r, K("route_id")))
         stops == RouteStopsOf(r, run.trips, run.stopTimes, run.stops)
     IN run' = [run EXCEPT
                  !.pending = Tail(@),
                  !.resultRoutes =
                     Append(@, IF run.includeStops
                               THEN [route_id |-> id, stops |-> stops,
                                     total_stops |-> Len(stops)]
                               ELSE [route_id |-> id])]
  /\ UNCHANGED shared

\* Lines 418-426.
FrRespond ==
  /\ run.pc = "fr-route"
  /\ Len(run.pending) = 0
  /\ run' = [run EXCEPT !.pc = "fr-done",
                        !.body = [count |-> Len(run.resultRoutes),
                                  routes |-> run.resultRoutes]]
  /\ UNCHANGED shared

FrNext == FrRoutes \/ FrRoute \/ FrRespond

SpecFindRoute == FrInit /\ [][FrNext]_vars


\* The routes of the answer list, each, the stop_times rows of the first
\* trip of the route in the trips table (those of a stop that stops.txt
\* lists, when onlyKnown), by ascending stop_sequence, and their number as
\* total_stops; nothing and 0 for a route without a trip.
FrStopsAre(onlyKnown) ==
  \A k \in 1..Len(run.body.routes) :
    LET info    == run.body.routes[k]
        ofRoute == {i \in 1..Len(run.trips) :
                      Field(run.trips[i], K("route_id")) = info.route_id}
        first   == CHOOSE i \in ofRoute : \A j \in ofRoute : i <= j
        tripId  == Field(run.trips[first], K("trip_id"))
        listed  == {Field(run.stops[i], K("stop_id")) : i \in 1..Len(run.stops)}
        rows    == {i \in 1..Len(run.stopTimes) :
                      /\ Field(run.stopTimes[i], K("trip_id")) = tripId
                      /\ onlyKnown => Field(run.stopTimes[i], K("stop_id")) \in listed}
        Is(e, i) == /\ e.stop_id = Field(run.stopTimes[i], K("stop_id"))
                    /\ e.stop_sequence =
                         parseInt(Field(run.stopTimes[i], K("stop_sequence")))
    IN /\ info.total_stops = Len(info.stops)
       /\ IF ofRoute = {} THEN info.stops = << >>
          ELSE /\ Len(info.stops) = Cardinality(rows)
               /\ \A a \in 1..Len(info.stops) : \A b \in (a + 1)..Len(info.stops) :
                    info.stops[a].stop_sequence <= info.stops[b].stop_sequence
               /\ \A i \in rows :
                    Cardinality({a \in 1..Len(info.stops) : Is(info.stops[a], i)})
                      = Cardinality({j \in rows : run.stopTimes[j] = run.stopTimes[i]})

\* C21.  With include_stops every route of the answer lists the stop_times
\* rows of the first trip of the route in the trips table, by ascending
\* integer stop_sequence, with total_stops their number; a route without a
\* trip has no stops and total_stops 0.
C21_StopsOfFirstTrip ==
  (run.pc = "fr-done" /\ run.includeStops) => FrStopsAre(FALSE)

\* C21, as the handler has it: the rows listed are those of the first trip
\* whose stop_id is a stop of stops.txt.
C21_KnownStopsOfFirstTrip ==
  (run.pc = "fr-done" /\ run.includeStops) => FrStopsAre(TRUE)

\* Route R1 has the trips T2 and T1, in this order, and lists the stop of
\* T2; route R2 has no trip and lists nothing.
FindRouteTakesFirstTrip ==
  /\ run.pc = "fr-done"
  /\ run.includeStops
  /\ Len(run.trips) = 2
  /\ Field(run.trips[1], K("trip_id")) = << "T2" >>
  /\ Field(run.trips[2], K("trip_id")) = << "T1" >>
  /\ Len(run.stopTimes) = 2
  /\ Field(run.stopTimes[1], K("trip_id")) = << "T1" >>
  /\ Field(run.stopTimes[2], K("trip_id")) = << "T2" >>
  /\ run.body.routes[1].route_id = << "R1" >>
  /\ run.body.routes[1].total_stops = 1
  /\ run.body.routes[1].stops[1].stop_id = << "S1" >>
  /\ run.body.routes[1].stops[1].stop_sequence = 1
  /\ run.body.routes[2].route_id = << "R2" >>
  /\ run.body.routes[2].total_stops = 0

\* The first trip of route R1 has a row of stop S9, which stops.txt does not
\* list, and a row of stop S1: the answer lists S1 alone, total_stops 1.
C21_Witness ==
  /\ run.pc = "fr-done"
  /\ run.includeStops
  /\ Len(run.trips) > 0
  /\ Field(run.trips[1], K("trip_id")) = << "T1" >>
  /\ Len(run.stopTimes) = 2
  /\ Field(run.stopTimes[1], K("trip_id")) = << "T1" >>
  /\ Field(run.stopTimes[1], K("stop_id")) = << "S9" >>
  /\ Field(run.stopTimes[2], K("trip_id")) = << "T1" >>
  /\ Field(run.stopTimes[2], K("stop_id")) = << "S1" >>
  /\ run.body.routes[1].route_id = << "R1" >>
  /\ run.body.routes[1].total_stops = 1
  /\ Len(run.body.routes[1].stops) = 1
  /\ run.body.routes[1].stops[1].stop_id = << "S1" >>
  /\ run.body.routes[1].stops[1].stop_sequence = 10

\* The first trip of route R1 stops at S1 with stop_sequence 10 and then at
\* S2 with stop_sequence 9: S2 is listed first.
FindRouteOrdersBySequence ==
  /\ run.pc = "fr-done"
  /\ run.includeStops
  /\ Len(run.stopTimes) = 2
  /\ Field(run.stopTimes[1], K("stop_id")) = << "S1" >>
  /\ run.body.routes[1].total_stops = 2
  /\ run.body.routes[1].stops[1].stop_id = << "S2" >>
  /\ run.body.routes[1].stops[1].stop_sequence = 9
  /\ run.body.routes[1].stops[2].stop_sequence = 10

====
